---- MODULE Spec2Model ----
(***************************************************************************)
(* Model of the scoring-and-analysis core of smart-housing-decision:       *)
(* ScoringEngine (app/core/scoring.py), ProConAnalyzer                     *)
(* (app/core/analyzer.py) and DataAggregator (app/core/aggregator.py).     *)
(*                                                                         *)
(* Conventions.                                                            *)
(*  - Optional[T]: None is the empty sequence, a present value x is <<x>>. *)
(*  - Python floats are modelled as exact rationals [n |-> , d |-> ] with  *)
(*    d > 0; the literal 1.2 is 6/5, 0.35 is 35/100 and so on.             *)
(*  - The Chinese string literals of the source are written in pinyin:     *)
(*    "ditie" (subway), "yiyuan" (hospital), "shangchang" (mall),          *)
(*    "gongyuan" (park), "xuexiao" (school), "shizhongdian" (city key      *)
(*    school), "quzhongdian" (district key school), "putong" (ordinary),   *)
(*    "weizhi" (unknown).                                                  *)
(*  - One invocation of an operation is one behaviour: Init draws the      *)
(*    inputs (and, for the aggregator, the stored rows), the operation's   *)
(*    action runs the whole handler and records its outcome in ret.        *)
(***************************************************************************)
EXTENDS Integers, Sequences, FiniteSets, TLC

VARIABLES
    database, \* the stored rows (communities, school_districts, nearby_pois)
    call,   \* the invocation under way: the operation and its arguments
    ret     \* its outcome: pending, a returned value, or a raised exception

vars == <<database, call, ret>>

-----------------------------------------------------------------------------
(* Optional values *)

None == << >>

Some(x) == <<x>>

Opt(S) == {None} \cup {Some(x) : x \in S}

-----------------------------------------------------------------------------
(* Exact rational arithmetic standing for Python float arithmetic *)

RECURSIVE Gcd(_, _)
Gcd(a, b) == IF b = 0 THEN a ELSE Gcd(b, a % b)

Abs(i) == IF i < 0 THEN -i ELSE i

\* n/d in lowest terms, d > 0 (d = 0 is kept: the mark of a division by zero)
R(n, d) ==
    IF d = 0 THEN [n |-> n, d |-> 0]
    ELSE LET g == Gcd(Abs(n), Abs(d))
             s == IF d < 0 THEN -1 ELSE 1
         IN  [n |-> s * (n \div g), d |-> s * (d \div g)]

RInt(i) == [n |-> i, d |-> 1]

RAdd(a, b) == R(a.n * b.d + b.n * a.d, a.d * b.d)

RSub(a, b) == R(a.n * b.d - b.n * a.d, a.d * b.d)

RMul(a, b) == R(a.n * b.n, a.d * b.d)

\* a / b; Python raises ZeroDivisionError on b = 0, modelled as the value n/0.
RDiv(a, b) == IF b.n = 0 THEN R(a.n, 0) ELSE R(a.n * b.d, a.d * b.n)

RLe(a, b) == a.n * b.d <= b.n * a.d

RLt(a, b) == a.n * b.d < b.n * a.d

RMin(a, b) == IF RLe(a, b) THEN a ELSE b

RMax(a, b) == IF RLe(b, a) THEN a ELSE b

\* A float division by zero happened somewhere in the computation of a.
ZeroDivided(a) == a.d = 0

-----------------------------------------------------------------------------
(* Bounds of the input domains *)

\* prices range over -NegPrice..MaxPrice (negative and zero prices are the
\* malformed inputs the engine does not validate)
MaxPrice == 13

NegPrice == 2

Prices == (-NegPrice)..MaxPrice

-----------------------------------------------------------------------------
(* ScoringEngine.calc_price_score *)

\* calc_price_score without the return at upper_bound
calc_price_score_no_floor(avg_price, price_min, price_max) ==
    IF avg_price = None THEN RInt(5)
    ELSE LET a == RInt(avg_price[1])
             upper_bound == RMul(RInt(price_max), R(6, 5))
         IN  IF RLe(a, RInt(price_min)) THEN RInt(10)
             ELSE IF RLt(RInt(price_max), a)
                  THEN RSub(RInt(4),
                            RMul(RDiv(RSub(a, RInt(price_max)),
                                      RSub(upper_bound, RInt(price_max))),
                                 RInt(3)))
             ELSE LET price_range == price_max - price_min
                  IN  IF price_range = 0 THEN RInt(10)
                      ELSE RSub(RInt(10),
                                RMul(RDiv(RSub(a, RInt(price_min)), RInt(price_range)),
                                     RInt(4)))

\* calc_price_score with the in-budget ratio measured from price_max
calc_price_score_reversed_ratio(avg_price, price_min, price_max) ==
    IF avg_price = None THEN RInt(5)
    ELSE LET a == RInt(avg_price[1])
             upper_bound == RMul(RInt(price_max), R(6, 5))
         IN  IF RLe(a, RInt(price_min)) THEN RInt(10)
             ELSE IF RLe(upper_bound, a) THEN RInt(1)
             ELSE IF RLt(RInt(price_max), a)
                  THEN RSub(RInt(4),
                            RMul(RDiv(RSub(a, RInt(price_max)),
                                      RSub(upper_bound, RInt(price_max))),
                                 RInt(3)))
             ELSE LET price_range == price_max - price_min
                  IN  IF price_range = 0 THEN RInt(10)
                      ELSE RSub(RInt(10),
                                RMul(RDiv(RSub(RInt(price_max), a), RInt(price_range)),
                                     RInt(4)))

calc_price_score(avg_price, price_min, price_max) ==
    IF avg_price = None THEN RInt(5)
    ELSE LET a == RInt(avg_price[1])
             upper_bound == RMul(RInt(price_max), R(6, 5))
         IN  IF RLe(a, RInt(price_min)) THEN RInt(10)
             ELSE IF RLe(upper_bound, a) THEN RInt(1)
             ELSE IF RLt(RInt(price_max), a)
                  THEN RSub(RInt(4),
                            RMul(RDiv(RSub(a, RInt(price_max)),
                                      RSub(upper_bound, RInt(price_max))),
                                 RInt(3)))
             ELSE LET price_range == price_max - price_min
                  IN  IF price_range = 0 THEN RInt(10)
                      ELSE RSub(RInt(10),
                                RMul(RDiv(RSub(a, RInt(price_min)), RInt(price_range)),
                                     RInt(4)))

-----------------------------------------------------------------------------
(* ScoringEngine.calc_school_score *)

\* rank_map, as a set of <<key, value>> pairs
rank_map ==
    { <<"shizhongdian", RInt(10)>>, <<"quzhongdian", RInt(7)>>, <<"putong", RInt(5)>> }

\* dict.get(key, default) on a dict given as a set of <<key, value>> pairs
DictGet(dict, key, default) ==
    IF \E kv \in dict : kv[1] = key
    THEN (CHOOSE kv \in dict : kv[1] = key)[2]
    ELSE default

\* calc_school_score with an unrecognised rank scored as an ordinary school
calc_school_score_default_ordinary(school_rank) ==
    IF school_rank = None THEN RInt(0)
    ELSE DictGet(rank_map, school_rank[1], RInt(5))

calc_school_score(school_rank) ==
    IF school_rank = None THEN RInt(0)
    ELSE DictGet(rank_map, school_rank[1], RInt(0))

-----------------------------------------------------------------------------
(* ScoringEngine.calc_facilities_score *)

CATEGORY_WEIGHTS ==
    { <<"ditie", RInt(3)>>, <<"yiyuan", RInt(2)>>, <<"shangchang", RInt(2)>>,
      <<"gongyuan", R(3, 2)>>, <<"xuexiao", R(3, 2)>> }

distance_to_score(distance) ==
    IF distance <= 500 THEN RInt(10)
    ELSE IF distance <= 1000 THEN RInt(7)
    ELSE IF distance <= 2000 THEN RInt(4)
    ELSE RInt(1)

\* category_best_scores with every POI overwriting its category's entry
RECURSIVE category_best_scores_last(_, _)
category_best_scores_last(pois, k) ==
    IF k = 0 THEN {}
    ELSE LET before == category_best_scores_last(pois, k - 1)
             poi == pois[k]
             category == poi.category
         IN  IF poi.distance = None THEN before
             ELSE {kv \in before : kv[1] # category}
                  \cup {<<category, distance_to_score(poi.distance[1])>>}

\* category_best_scores with an absent distance scored as the farthest band
RECURSIVE category_best_scores_absent_far(_, _)
category_best_scores_absent_far(pois, k) ==
    IF k = 0 THEN {}
    ELSE LET before == category_best_scores_absent_far(pois, k - 1)
             poi == pois[k]
             category == poi.category
             score == IF poi.distance = None THEN RInt(1)
                      ELSE distance_to_score(poi.distance[1])
             seen == \E kv \in before : kv[1] = category
         IN  IF ~seen
             THEN before \cup {<<category, score>>}
             ELSE IF RLt(DictGet(before, category, RInt(0)), score)
             THEN {kv \in before : kv[1] # category} \cup {<<category, score>>}
             ELSE before

\* The dict category_best_scores after the loop over pois[1..k]: a set of
\* <<category, best score>> pairs, one per category seen with a distance.
RECURSIVE category_best_scores(_, _)
category_best_scores(pois, k) ==
    IF k = 0 THEN {}
    ELSE LET before == category_best_scores(pois, k - 1)
             poi == pois[k]
             category == poi.category
         IN  IF poi.distance = None THEN before
             ELSE LET score == distance_to_score(poi.distance[1])
                      seen == \E kv \in before : kv[1] = category
                  IN  IF ~seen
                      THEN before \cup {<<category, score>>}
                      ELSE IF RLt(DictGet(before, category, RInt(0)), score)
                      THEN {kv \in before : kv[1] # category} \cup {<<category, score>>}
                      ELSE before

\* The accumulators <<weighted_sum, total_weight>> after the loop over the dict.
RECURSIVE weighted_sums(_)
weighted_sums(best) ==
    IF best = {} THEN <<RInt(0), RInt(0)>>
    ELSE LET kv == CHOOSE x \in best : TRUE
             rest == weighted_sums(best \ {kv})
             weight == DictGet(CATEGORY_WEIGHTS, kv[1], RInt(1))
         IN  <<RAdd(rest[1], RMul(kv[2], weight)), RAdd(rest[2], weight)>>

calc_facilities_score(pois) ==
    IF Len(pois) = 0 THEN RInt(0)
    ELSE LET best == category_best_scores(pois, Len(pois))
         IN  IF best = {} THEN RInt(0)
             ELSE LET sums == weighted_sums(best)
                      weighted_sum == sums[1]
                      total_weight == sums[2]
                  IN  IF total_weight.n = 0 THEN RInt(0)
                      ELSE RMin(RDiv(weighted_sum, total_weight), RInt(10))

-----------------------------------------------------------------------------
(* The rank tables loaded at import: _PROPERTY_RANKS and _DEVELOPER_RANKS.    *)
(* The tests name "biguiyuan_fuwu" (property) and "wanke" (developer) as      *)
(* top10 entries; the other names stand for a top50-only entry and an entry   *)
(* that both lists hold.                                                      *)

PROPERTY_RANKS ==
    [top10 |-> {"biguiyuan_fuwu", "wuye_both"}, top50 |-> {"wuye_both", "wuye_top50"}]

DEVELOPER_RANKS ==
    [top10 |-> {"wanke", "dev_both"}, top50 |-> {"dev_both", "dev_top50"}]

-----------------------------------------------------------------------------
(* ScoringEngine.calc_property_score *)

\* Python truthiness of an Optional[str]
Truthy(s) == s # None /\ s[1] # ""

\* calc_property_score with green_ratio > 0.35 in place of >=
calc_property_score_strict_green(company, fee, green_ratio, volume_ratio) ==
    LET s0 == RInt(5)
        s1 == IF Truthy(company)
              THEN IF company[1] \in PROPERTY_RANKS.top10 THEN RAdd(s0, RInt(3))
                   ELSE IF company[1] \in PROPERTY_RANKS.top50 THEN RAdd(s0, R(3, 2))
                   ELSE s0
              ELSE s0
        s2 == IF green_ratio # None
              THEN IF RLt(R(35, 100), green_ratio[1]) THEN RAdd(s1, RInt(1))
                   ELSE IF RLt(green_ratio[1], R(2, 10)) THEN RSub(s1, RInt(1))
                   ELSE s1
              ELSE s1
        s3 == IF volume_ratio # None
              THEN IF RLe(volume_ratio[1], RInt(2)) THEN RAdd(s2, RInt(1))
                   ELSE IF RLt(RInt(4), volume_ratio[1]) THEN RSub(s2, RInt(1))
                   ELSE s2
              ELSE s2
    IN  RMax(RInt(0), RMin(s3, RInt(10)))

calc_property_score(company, fee, green_ratio, volume_ratio) ==
    LET s0 == RInt(5)
        s1 == IF Truthy(company)
              THEN IF company[1] \in PROPERTY_RANKS.top10 THEN RAdd(s0, RInt(3))
                   ELSE IF company[1] \in PROPERTY_RANKS.top50 THEN RAdd(s0, R(3, 2))
                   ELSE s0
              ELSE s0
        s2 == IF green_ratio # None
              THEN IF RLe(R(35, 100), green_ratio[1]) THEN RAdd(s1, RInt(1))
                   ELSE IF RLt(green_ratio[1], R(2, 10)) THEN RSub(s1, RInt(1))
                   ELSE s1
              ELSE s1
        s3 == IF volume_ratio # None
              THEN IF RLe(volume_ratio[1], RInt(2)) THEN RAdd(s2, RInt(1))
                   ELSE IF RLt(RInt(4), volume_ratio[1]) THEN RSub(s2, RInt(1))
                   ELSE s2
              ELSE s2
    IN  RMax(RInt(0), RMin(s3, RInt(10)))

-----------------------------------------------------------------------------
(* ScoringEngine.calc_developer_score *)

\* calc_developer_score with an absent developer scored as a top10 one
calc_developer_score_absent_top(developer) ==
    IF developer = None THEN RInt(10)
    ELSE IF developer[1] \in DEVELOPER_RANKS.top10 THEN RInt(10)
    ELSE IF developer[1] \in DEVELOPER_RANKS.top50 THEN RInt(7)
    ELSE RInt(3)

\* calc_developer_score with the top50 list looked up before the top10 list
calc_developer_score_top50_first(developer) ==
    IF developer = None THEN RInt(3)
    ELSE IF developer[1] \in DEVELOPER_RANKS.top50 THEN RInt(7)
    ELSE IF developer[1] \in DEVELOPER_RANKS.top10 THEN RInt(10)
    ELSE RInt(3)

calc_developer_score(developer) ==
    IF developer = None THEN RInt(3)
    ELSE IF developer[1] \in DEVELOPER_RANKS.top10 THEN RInt(10)
    ELSE IF developer[1] \in DEVELOPER_RANKS.top50 THEN RInt(7)
    ELSE RInt(3)

-----------------------------------------------------------------------------
(* ScoringEngine.calc_total_score *)

\* The five dimensions, in the order score_community builds sub_scores.
Dimensions == <<"price", "school", "facilities", "property_mgmt", "developer">>

\* sub_scores is an insertion-ordered dict: a sequence of <<key, value>> pairs
\* with distinct keys.  sub_scores.get(key, default):
SubGet(sub_scores, key, default) ==
    IF \E i \in 1..Len(sub_scores) : sub_scores[i][1] = key
    THEN sub_scores[CHOOSE i \in 1..Len(sub_scores) : sub_scores[i][1] = key][2]
    ELSE default

RECURSIVE Pow10(_)
Pow10(k) == IF k = 0 THEN 1 ELSE 10 * Pow10(k - 1)

\* Python round(x, ndigits): to the nearest multiple of 10^-ndigits, ties to even
round(x, ndigits) ==
    LET scale == Pow10(ndigits)
        num == x.n * scale
        q == num \div x.d
        r == num - q * x.d
    IN  IF 2 * r < x.d THEN R(q, scale)
        ELSE IF 2 * r > x.d THEN R(q + 1, scale)
        ELSE IF q % 2 = 0 THEN R(q, scale)
        ELSE R(q + 1, scale)

\* calc_total_score with the price sub-score added unweighted
calc_total_score_unweighted_price(sub_scores, weights) ==
    LET total ==
            RAdd(RAdd(RAdd(RAdd(
                SubGet(sub_scores, "price", RInt(0)),
                RMul(SubGet(sub_scores, "school", RInt(0)), weights.school)),
                RMul(SubGet(sub_scores, "facilities", RInt(0)), weights.facilities)),
                RMul(SubGet(sub_scores, "property_mgmt", RInt(0)), weights.property_mgmt)),
                RMul(SubGet(sub_scores, "developer", RInt(0)), weights.developer))
    IN  round(total, 2)

\* calc_total_score rounding to one decimal
calc_total_score_round1(sub_scores, weights) ==
    LET total ==
            RAdd(RAdd(RAdd(RAdd(
                RMul(SubGet(sub_scores, "price", RInt(0)), weights.price),
                RMul(SubGet(sub_scores, "school", RInt(0)), weights.school)),
                RMul(SubGet(sub_scores, "facilities", RInt(0)), weights.facilities)),
                RMul(SubGet(sub_scores, "property_mgmt", RInt(0)), weights.property_mgmt)),
                RMul(SubGet(sub_scores, "developer", RInt(0)), weights.developer))
    IN  round(total, 1)

calc_total_score(sub_scores, weights) ==
    LET total ==
            RAdd(RAdd(RAdd(RAdd(
                RMul(SubGet(sub_scores, "price", RInt(0)), weights.price),
                RMul(SubGet(sub_scores, "school", RInt(0)), weights.school)),
                RMul(SubGet(sub_scores, "facilities", RInt(0)), weights.facilities)),
                RMul(SubGet(sub_scores, "property_mgmt", RInt(0)), weights.property_mgmt)),
                RMul(SubGet(sub_scores, "developer", RInt(0)), weights.developer))
    IN  round(total, 2)

-----------------------------------------------------------------------------
(* ProConAnalyzer *)

\* A template is its text (named by an identifier standing for the Chinese
\* sentence) and the one placeholder it holds, if any.
Template(text, field) == [text |-> text, field |-> field]

PRO_TEMPLATES ==
    { <<"price", Template("pro_price", Some("avg_price"))>>,
      <<"school", Template("pro_school", None)>>,
      <<"facilities", Template("pro_facilities", None)>>,
      <<"property_mgmt", Template("pro_property_mgmt", Some("property_company"))>>,
      <<"developer", Template("pro_developer", Some("developer"))>> }

CON_TEMPLATES ==
    { <<"price", Template("con_price", Some("avg_price"))>>,
      <<"school", Template("con_school", None)>>,
      <<"facilities", Template("con_facilities", None)>>,
      <<"property_mgmt", Template("con_property_mgmt", None)>>,
      <<"developer", Template("con_developer", None)>> }

PRO_THRESHOLD == 8

CON_THRESHOLD == 4

SUBWAY_NEARBY_DISTANCE == 500

HasKey(dict, key) == \E kv \in dict : kv[1] = key

\* str(value) as format_map substitutes it: avg_price is the one attribute
\* that holds an int, the others hold strings; None prints as "None".
PyStr(key, value) ==
    IF value = None THEN "None"
    ELSE IF key = "avg_price" THEN ToString(value[1])
    ELSE value[1]

\* _DefaultDict(data)[key]: the stored value, "weizhi" for a missing key
DefaultDict_get(data, key) ==
    IF HasKey(data, key) THEN PyStr(key, DictGet(data, key, None)) ELSE "weizhi"

\* The rendered line: the template's text with its placeholder substituted.
render_template(template, data) ==
    IF template.field = None THEN <<template.text>>
    ELSE <<template.text, DefaultDict_get(data, template.field[1])>>

RECURSIVE collect_pros(_, _, _)
collect_pros(sub_scores, community_data, k) ==
    IF k = 0 THEN << >>
    ELSE LET pros == collect_pros(sub_scores, community_data, k - 1)
             dimension == sub_scores[k][1]
             score == sub_scores[k][2]
         IN  IF RLe(RInt(PRO_THRESHOLD), score) /\ HasKey(PRO_TEMPLATES, dimension)
             THEN Append(pros, render_template(DictGet(PRO_TEMPLATES, dimension, None),
                                               community_data))
             ELSE pros

\* _collect_cons with score < CON_THRESHOLD in place of <=
RECURSIVE collect_cons_strict(_, _, _)
collect_cons_strict(sub_scores, community_data, k) ==
    IF k = 0 THEN << >>
    ELSE LET cons == collect_cons_strict(sub_scores, community_data, k - 1)
             dimension == sub_scores[k][1]
             score == sub_scores[k][2]
         IN  IF RLt(score, RInt(CON_THRESHOLD)) /\ HasKey(CON_TEMPLATES, dimension)
             THEN Append(cons, render_template(DictGet(CON_TEMPLATES, dimension, None),
                                               community_data))
             ELSE cons

RECURSIVE collect_cons(_, _, _)
collect_cons(sub_scores, community_data, k) ==
    IF k = 0 THEN << >>
    ELSE LET cons == collect_cons(sub_scores, community_data, k - 1)
             dimension == sub_scores[k][1]
             score == sub_scores[k][2]
         IN  IF RLe(score, RInt(CON_THRESHOLD)) /\ HasKey(CON_TEMPLATES, dimension)
             THEN Append(cons, render_template(DictGet(CON_TEMPLATES, dimension, None),
                                               community_data))
             ELSE cons

\* The subway loop of _generate_tags from pois[i] on: "near" when it appends the
\* tag and breaks, "none" when it runs off the list, "TypeError" when it
\* compares a None distance with SUBWAY_NEARBY_DISTANCE (the key "distance"
\* is present in every POI the aggregator builds, so the .get default is unused).
RECURSIVE subway_loop(_, _)
subway_loop(pois, i) ==
    IF i > Len(pois) THEN "none"
    ELSE IF pois[i].type = "subway"
         THEN IF pois[i].distance = None THEN "TypeError"
              ELSE IF pois[i].distance[1] <= SUBWAY_NEARBY_DISTANCE THEN "near"
              ELSE subway_loop(pois, i + 1)
         ELSE subway_loop(pois, i + 1)

\* _generate_tags with the price sub-score compared by > PRO_THRESHOLD
generate_tags_strict_price(sub_scores, school_rank, pois) ==
    LET t1 == IF school_rank = Some("shizhongdian") THEN <<"shizhongdian_xuequ">>
              ELSE IF school_rank = Some("quzhongdian") THEN <<"quzhongdian_xuequ">>
              ELSE << >>
        subway == IF Len(pois) > 0 THEN subway_loop(pois, 1) ELSE "none"
        t2 == IF subway = "near" THEN Append(t1, "ditie_pang") ELSE t1
        t3 == IF RLt(RInt(PRO_THRESHOLD), SubGet(sub_scores, "price", RInt(0)))
              THEN Append(t2, "gao_xingjiabi")
              ELSE t2
    IN  IF subway = "TypeError" THEN [status |-> "raised", error |-> "TypeError"]
        ELSE [status |-> "ok", value |-> t3]

\* _generate_tags: Ok(tags) or Raised("TypeError")
generate_tags(sub_scores, school_rank, pois) ==
    LET t1 == IF school_rank = Some("shizhongdian") THEN <<"shizhongdian_xuequ">>
              ELSE IF school_rank = Some("quzhongdian") THEN <<"quzhongdian_xuequ">>
              ELSE << >>
        subway == IF Len(pois) > 0 THEN subway_loop(pois, 1) ELSE "none"
        t2 == IF subway = "near" THEN Append(t1, "ditie_pang") ELSE t1
        t3 == IF RLe(RInt(PRO_THRESHOLD), SubGet(sub_scores, "price", RInt(0)))
              THEN Append(t2, "gao_xingjiabi")
              ELSE t2
    IN  IF subway = "TypeError" THEN [status |-> "raised", error |-> "TypeError"]
        ELSE [status |-> "ok", value |-> t3]

\* analyze: Ok({pros, cons, tags}) or the exception _generate_tags raised
analyze(sub_scores, community_data, school_rank, pois) ==
    LET pros == collect_pros(sub_scores, community_data, Len(sub_scores))
        cons == collect_cons(sub_scores, community_data, Len(sub_scores))
        tags == generate_tags(sub_scores, school_rank, pois)
    IN  IF tags.status = "raised" THEN tags
        ELSE [status |-> "ok",
              value |-> [pros |-> pros, cons |-> cons, tags |-> tags.value]]

-----------------------------------------------------------------------------
(* DataAggregator.score_community *)

\* analyzer_pois with the category passed on as the type unchanged
RECURSIVE analyzer_pois_untranslated(_)
analyzer_pois_untranslated(pois) ==
    IF pois = << >> THEN << >>
    ELSE <<[type |-> Head(pois).category,
            distance |-> Head(pois).distance]>> \o analyzer_pois_untranslated(Tail(pois))

\* analyzer_pois: category "ditie" becomes type "subway", "distance" is copied
RECURSIVE analyzer_pois(_)
analyzer_pois(pois) ==
    IF pois = << >> THEN << >>
    ELSE <<[type |-> IF Head(pois).category = "ditie" THEN "subway"
                     ELSE Head(pois).category,
            distance |-> Head(pois).distance]>> \o analyzer_pois(Tail(pois))

\* The dict sub_scores, in the order its keys are inserted.
sub_scores_of(community, school_rank, pois, price_min, price_max) ==
    << <<"price", calc_price_score(community.avg_price, price_min, price_max)>>,
       <<"school", calc_school_score(school_rank)>>,
       <<"facilities", calc_facilities_score(pois)>>,
       <<"property_mgmt",
         calc_property_score(community.property_company, community.property_fee,
                             community.green_ratio, community.volume_ratio)>>,
       <<"developer", calc_developer_score(community.developer)>> >>

\* total_score with the weighted total scaled by 100
total_score_of_times100(weighted_total) == round(RMul(weighted_total, RInt(100)), 1)

\* total_score = round(weighted_total * 10, 1)
total_score_of(weighted_total) == round(RMul(weighted_total, RInt(10)), 1)

\* The dict community_data handed to the analyzer: the three keys are always set.
community_data_of(community) ==
    { <<"avg_price", community.avg_price>>,
      <<"developer", community.developer>>,
      <<"property_company", community.property_company>> }

\* The dict score_community returns, or the exception analyze raised.
score_result(total_score, sub_scores, analysis) ==
    IF analysis.status = "raised" THEN analysis
    ELSE [status |-> "ok",
          value |-> [score |-> total_score,
                     sub_scores |-> sub_scores,
                     pros |-> analysis.value.pros,
                     cons |-> analysis.value.cons,
                     tags |-> analysis.value.tags]]

\* score_community with the analyzer handed each sub-score scaled by five
\* times the weight of the price dimension
score_sub_scores_weighted(sub_scores, community, school_rank, pois, weights) ==
    IF \E i \in 1..Len(sub_scores) : ZeroDivided(sub_scores[i][2])
    THEN [status |-> "raised", error |-> "ZeroDivisionError"]
    ELSE score_result(total_score_of(calc_total_score(sub_scores, weights)),
                      sub_scores,
                      analyze([k \in 1..Len(sub_scores) |->
                                  <<sub_scores[k][1],
                                    RMul(sub_scores[k][2], RMul(RInt(5), weights.price))>>],
                              community_data_of(community), school_rank,
                              analyzer_pois(pois)))

\* score_community from the point where sub_scores is built
score_sub_scores(sub_scores, community, school_rank, pois, weights) ==
    IF \E i \in 1..Len(sub_scores) : ZeroDivided(sub_scores[i][2])
    THEN [status |-> "raised", error |-> "ZeroDivisionError"]
    ELSE score_result(total_score_of(calc_total_score(sub_scores, weights)),
                      sub_scores,
                      analyze(sub_scores, community_data_of(community), school_rank,
                              analyzer_pois(pois)))

score_community(community, school_rank, pois, price_min, price_max, weights) ==
    score_sub_scores(sub_scores_of(community, school_rank, pois, price_min, price_max),
                     community, school_rank, pois, weights)

-----------------------------------------------------------------------------
(* DataAggregator.filter_communities and search_and_rank *)

\* The stored rows: db.communities, db.school_districts and db.nearby_pois are
\* the three tables, each a sequence of rows in table order.

\* filter_communities without the upper end of the band
RECURSIVE filter_communities_no_max(_, _, _, _, _)
filter_communities_no_max(rows, city, district, price_min, price_max) ==
    IF rows = << >> THEN << >>
    ELSE LET c == Head(rows)
             rest == filter_communities_no_max(Tail(rows), city, district,
                                               price_min, price_max)
         IN  IF /\ c.city = city
                /\ (Truthy(district) => c.district = district)
                /\ c.avg_price # None
                /\ c.avg_price[1] >= price_min
             THEN <<c>> \o rest
             ELSE rest

\* filter_communities with avg_price < price_max in place of <=
RECURSIVE filter_communities_exclusive_max(_, _, _, _, _)
filter_communities_exclusive_max(rows, city, district, price_min, price_max) ==
    IF rows = << >> THEN << >>
    ELSE LET c == Head(rows)
             rest == filter_communities_exclusive_max(Tail(rows), city, district,
                                                      price_min, price_max)
         IN  IF /\ c.city = city
                /\ (Truthy(district) => c.district = district)
                /\ c.avg_price # None
                /\ c.avg_price[1] >= price_min
                /\ c.avg_price[1] < price_max
             THEN <<c>> \o rest
             ELSE rest

\* A comparison with a NULL avg_price is not true in SQL: the row is dropped.
RECURSIVE filter_communities(_, _, _, _, _)
filter_communities(rows, city, district, price_min, price_max) ==
    IF rows = << >> THEN << >>
    ELSE LET c == Head(rows)
             rest == filter_communities(Tail(rows), city, district, price_min, price_max)
         IN  IF /\ c.city = city
                /\ (Truthy(district) => c.district = district)
                /\ c.avg_price # None
                /\ c.avg_price[1] >= price_min
                /\ c.avg_price[1] <= price_max
             THEN <<c>> \o rest
             ELSE rest

\* ORDER BY (year IS NULL), year DESC: r sorts strictly before q
school_before(r, q) ==
    \/ r.year # None /\ q.year = None
    \/ r.year # None /\ q.year # None /\ r.year[1] > q.year[1]

\* What .first() may hand back for a community: the school_rank of a row that
\* no other row of the community sorts strictly before (rows that tie come in
\* an order the query leaves to the database); None when there is no row.
first_school_ranks(school_districts, community_id) ==
    LET mine == {i \in 1..Len(school_districts) :
                    school_districts[i].community_id = community_id}
        firsts == {i \in mine :
                    \A j \in mine : ~school_before(school_districts[j], school_districts[i])}
    IN  IF mine = {} THEN {None}
        ELSE {school_districts[i].school_rank : i \in firsts}

\* The POI dicts search_and_rank builds for a community
RECURSIVE pois_of(_, _)
pois_of(nearby_pois, community_id) ==
    IF nearby_pois = << >> THEN << >>
    ELSE IF Head(nearby_pois).community_id = community_id
    THEN <<[category |-> Head(nearby_pois).category,
            distance |-> Head(nearby_pois).distance]>>
         \o pois_of(Tail(nearby_pois), community_id)
    ELSE pois_of(Tail(nearby_pois), community_id)

\* results.sort(key=score, reverse=True): a stable sort, so results of equal
\* score keep their order.  Insert x into the sorted list s behind every
\* element whose score is >= x's.
RECURSIVE insert_sorted(_, _)
insert_sorted(s, x) ==
    IF s = << >> THEN <<x>>
    ELSE IF RLe(x.score, Head(s).score) THEN <<Head(s)>> \o insert_sorted(Tail(s), x)
    ELSE <<x>> \o s

RECURSIVE sort_by_score(_, _)
sort_by_score(results, k) ==
    IF k = 0 THEN << >>
    ELSE insert_sorted(sort_by_score(results, k - 1), results[k])

\* The dict appended to results for a community and its score_result.
result_row(community, scored) ==
    [id |-> community.id, city |-> community.city,
     district |-> community.district,
     avg_price |-> community.avg_price,
     score |-> scored.score,
     sub_scores |-> scored.sub_scores,
     pros |-> scored.pros,
     cons |-> scored.cons,
     tags |-> scored.tags]

\* One pass of the loop body: the exception of this community's scoring, else
\* that of a later community, else this community's row before the later rows.
loop_step(community, scored, rest) ==
    IF scored.status = "raised" THEN scored
    ELSE IF rest.status = "raised" THEN rest
    ELSE [status |-> "ok", value |-> <<result_row(community, scored.value)>> \o rest.value]

\* The loop over the filtered communities: Ok(results) in loop order, or the
\* first exception score_community raises.  ranks[id] is the school_rank the
\* school query returned for community id.
RECURSIVE score_all(_, _, _, _, _, _)
score_all(communities, ranks, db, price_min, price_max, weights) ==
    IF communities = << >> THEN [status |-> "ok", value |-> << >>]
    ELSE loop_step(Head(communities),
                   score_community(Head(communities), ranks[Head(communities).id],
                                   pois_of(db.nearby_pois, Head(communities).id),
                                   price_min, price_max, weights),
                   score_all(Tail(communities), ranks, db, price_min, price_max, weights))

\* results.sort(...) and return, unless the loop raised
sorted_results(results) ==
    IF results.status = "raised" THEN results
    ELSE [status |-> "ok", value |-> sort_by_score(results.value, Len(results.value))]

search_and_rank(db, city, district, price_min, price_max, weights, ranks) ==
    sorted_results(
        score_all(filter_communities(db.communities, city, district, price_min, price_max),
                  ranks, db, price_min, price_max, weights))

-----------------------------------------------------------------------------
(* Input domains *)

\* all sequences over S of length at most n
SeqUpTo(S, n) == UNION {[1..k -> S] : k \in 0..n}

\* longest POI list handed to calc_facilities_score
MaxPois == 3

\* longest POI list handed to score_community
MaxScorePois == 2

\* most rows in the communities table
MaxCommunities == 2

SchoolRanks == {"shizhongdian", "quzhongdian", "putong", "qita", ""}

Categories == {"ditie", "yiyuan", "shangchang", "gongyuan", "xuexiao", "bianlidian"}

\* distances (metres) on both sides of every threshold, and a negative one
Distances == {-50, 300, 500, 501, 1000, 1001, 2000, 2001}

Poi(category, distance) == [category |-> category, distance |-> distance]

\* every category at every distance, for one-element lists
AllPois == {Poi(c, d) : c \in Categories, d \in Opt(Distances)}

\* a spread of categories and distances, for longer lists
SomePois ==
    {Poi(c, d) : c \in {"ditie", "yiyuan", "gongyuan", "bianlidian"},
                 d \in {None, Some(300), Some(1500)}}

Companies == {"biguiyuan_fuwu", "wuye_both", "wuye_top50", "qita_wuye", ""}

Developers == {"wanke", "dev_both", "dev_top50", "qita_kaifashang", ""}

GreenRatios == {R(19, 100), R(20, 100), R(34, 100), R(35, 100)}

VolumeRatios == {R(2, 1), R(21, 10), R(4, 1), R(41, 10)}

Fees == {R(7, 2)}

Weights(p, s, f, m, d) ==
    [price |-> p, school |-> s, facilities |-> f, property_mgmt |-> m, developer |-> d]

\* WeightsConfig(): the field defaults
DefaultWeights == Weights(R(30, 100), R(25, 100), R(20, 100), R(15, 100), R(10, 100))

\* weights that pass the field constraints ge=0, le=1
WeightSamples ==
    { DefaultWeights,
      Weights(RInt(1), RInt(1), RInt(1), RInt(1), RInt(1)),
      Weights(RInt(0), RInt(0), RInt(0), RInt(0), RInt(0)),
      Weights(R(1, 2), RInt(0), RInt(1), R(1, 3), RInt(0)),
      Weights(R(1, 2), R(1, 2), RInt(0), RInt(0), RInt(0)) }

Community(avg_price, company, fee, green_ratio, volume_ratio, developer) ==
    [avg_price |-> avg_price, property_company |-> company, property_fee |-> fee,
     green_ratio |-> green_ratio, volume_ratio |-> volume_ratio, developer |-> developer]

NoDatabase == [communities |-> << >>, school_districts |-> << >>, nearby_pois |-> << >>]

-----------------------------------------------------------------------------
(* get_community_detail (app/api/community.py) *)

\* db.query(T).filter(T.community_id == community_id).all(): the rows in the
\* order the database returns them, which is the order of the table
RECURSIVE rows_of(_, _)
rows_of(table, community_id) ==
    IF table = << >> THEN << >>
    ELSE IF Head(table).community_id = community_id
    THEN <<Head(table)>> \o rows_of(Tail(table), community_id)
    ELSE rows_of(Tail(table), community_id)

\* The sort key (sd.year is None, -(sd.year or 0)) as a pair <<0 or 1, integer>>
sort_key(sd) ==
    <<IF sd.year = None THEN 1 ELSE 0, IF sd.year = None THEN 0 ELSE -(sd.year[1])>>

\* key_before with the years sorted in ascending order
key_before_ascending(r, q) ==
    LET kr == sort_key(r)
        kq == sort_key(q)
    IN  kr[1] < kq[1] \/ (kr[1] = kq[1] /\ kr[2] > kq[2])

\* The key of r is less than the key of q (tuples compare lexicographically).
key_before(r, q) ==
    LET kr == sort_key(r)
        kq == sort_key(q)
    IN  kr[1] < kq[1] \/ (kr[1] = kq[1] /\ kr[2] < kq[2])

\* sorted(...) is stable: x goes behind every element whose key is not above its own.
RECURSIVE insert_by_key(_, _)
insert_by_key(s, x) ==
    IF s = << >> THEN <<x>>
    ELSE IF key_before(x, Head(s)) THEN <<x>> \o s
    ELSE <<Head(s)>> \o insert_by_key(Tail(s), x)

RECURSIVE sorted_districts(_, _)
sorted_districts(school_districts, k) ==
    IF k = 0 THEN << >>
    ELSE insert_by_key(sorted_districts(school_districts, k - 1), school_districts[k])

\* school_rank as the handler sets it from the community's records
detail_school_rank(school_districts) ==
    IF school_districts = << >> THEN None
    ELSE sorted_districts(school_districts, Len(school_districts))[1].school_rank

\* int(x) of the float n/d: truncation towards zero
int(x) == IF x.n >= 0 THEN x.n \div x.d ELSE -((-x.n) \div x.d)

\* the greatest power of two that is <= n, from the power p <= n on
RECURSIVE pow2_below(_, _)
pow2_below(n, p) == IF 2 * p > n THEN p ELSE pow2_below(n, 2 * p)

\* int(a * 0.7) for an int a >= 0, the product taken in doubles.  The double
\* 0.7 is 7/10 - (2/5) * 2^-53, so the exact product lies (2a/5) * 2^-53
\* below 7a/10.  When 7a/10 is no integer the truncation is floor(7a/10).
\* When it is an integer N, the product rounds to the double below N, and
\* truncates to N - 1, exactly when (2a/5) * 2^-53 = (4N/7) * 2^-53 exceeds
\* half the spacing 2^-52 * P of the doubles below N, P the greatest power of
\* two <= N (a tie rounds to N): when 4N > 7P.  First at a = 90: int(90 * 0.7) = 62.
int_times_07(a) ==
    IF a > 0 /\ a % 10 = 0
    THEN LET N == (7 * a) \div 10
         IN  IF 4 * N > 7 * pow2_below(N, 1) THEN N - 1 ELSE N
    ELSE (7 * a) \div 10

\* price_min = int(avg_price * 0.7), with avg_price = community.avg_price or 0
\* (int truncates towards zero, and the product of -a is minus that of a)
detail_price_min(community) ==
    LET avg_price == IF community.avg_price = None THEN 0 ELSE community.avg_price[1]
    IN  IF avg_price >= 0 THEN int_times_07(avg_price) ELSE -int_times_07(-avg_price)

\* detail_price_max with the fallback taken for negative prices only
detail_price_max_nonneg(community) ==
    LET avg_price == IF community.avg_price = None THEN 0 ELSE community.avg_price[1]
    IN  IF avg_price >= 0 THEN int(RMul(RInt(avg_price), R(13, 10))) ELSE 100000

\* detail_price_max with the factor 1.5
detail_price_max_wide(community) ==
    LET avg_price == IF community.avg_price = None THEN 0 ELSE community.avg_price[1]
    IN  IF avg_price > 0 THEN int(RMul(RInt(avg_price), R(3, 2))) ELSE 100000

\* price_max = int(avg_price * 1.3) if avg_price > 0 else 100000.  (The double
\* 1.3 lies above 13/10, so the truncated product is floor(13 * avg_price / 10).)
detail_price_max(community) ==
    LET avg_price == IF community.avg_price = None THEN 0 ELSE community.avg_price[1]
    IN  IF avg_price > 0 THEN int(RMul(RInt(avg_price), R(13, 10))) ELSE 100000

\* the (school_rank, year) pairs of SchoolDistrictResponse, in query order
RECURSIVE school_responses(_)
school_responses(school_districts) ==
    IF school_districts = << >> THEN << >>
    ELSE <<[school_rank |-> Head(school_districts).school_rank,
            year |-> Head(school_districts).year]>>
         \o school_responses(Tail(school_districts))

\* CommunityDetail(...), or the exception score_community raised
detail_response(community, school_districts, pois, scored) ==
    IF scored.status = "raised" THEN scored
    ELSE [status |-> "ok",
          value |-> [id |-> community.id, city |-> community.city,
                     district |-> community.district,
                     avg_price |-> community.avg_price,
                     score |-> scored.value.score,
                     sub_scores |-> scored.value.sub_scores,
                     pros |-> scored.value.pros,
                     cons |-> scored.value.cons,
                     school_districts |-> school_responses(school_districts),
                     nearby_pois |-> pois]]

\* The handler from the point where the community and its school_rank are known.
detail_of(db, community, school_districts, school_rank) ==
    detail_response(community, school_districts, pois_of(db.nearby_pois, community.id),
                    score_community(community, school_rank,
                                    pois_of(db.nearby_pois, community.id),
                                    detail_price_min(community), detail_price_max(community),
                                    DefaultWeights))

get_community_detail(db, community_id) ==
    IF \A i \in 1..Len(db.communities) : db.communities[i].id # community_id
    THEN [status |-> "raised", error |-> "HTTPException 404"]
    ELSE detail_of(db,
                   db.communities[CHOOSE i \in 1..Len(db.communities) :
                                     db.communities[i].id = community_id],
                   rows_of(db.school_districts, community_id),
                   detail_school_rank(rows_of(db.school_districts, community_id)))

-----------------------------------------------------------------------------
(* Outcomes *)

Pending == [status |-> "pending"]

Ok(v) == [status |-> "ok", value |-> v]

Raised(e) == [status |-> "raised", error |-> e]

-----------------------------------------------------------------------------
(* Invocations of the ScoringEngine functions *)

PriceCalls ==
    [op : {"calc_price_score"}, avg_price : Opt(Prices),
     price_min : Prices, price_max : Prices]

SchoolCalls == [op : {"calc_school_score"}, school_rank : Opt(SchoolRanks)]

FacilitiesCalls ==
    [op : {"calc_facilities_score"},
     pois : SeqUpTo(AllPois, 1) \cup SeqUpTo(SomePois, MaxPois)]

PropertyCalls ==
    [op : {"calc_property_score"}, company : Opt(Companies), fee : Opt(Fees),
     green_ratio : Opt(GreenRatios), volume_ratio : Opt(VolumeRatios)]

DeveloperCalls == [op : {"calc_developer_score"}, developer : Opt(Developers)]

CalcPriceScore ==
    /\ call.op = "calc_price_score"
    /\ ret = Pending
    /\ ret' = Ok(calc_price_score(call.avg_price, call.price_min, call.price_max))
    /\ UNCHANGED <<database, call>>

CalcSchoolScore ==
    /\ call.op = "calc_school_score"
    /\ ret = Pending
    /\ ret' = Ok(calc_school_score(call.school_rank))
    /\ UNCHANGED <<database, call>>

CalcFacilitiesScore ==
    /\ call.op = "calc_facilities_score"
    /\ ret = Pending
    /\ ret' = Ok(calc_facilities_score(call.pois))
    /\ UNCHANGED <<database, call>>

CalcPropertyScore ==
    /\ call.op = "calc_property_score"
    /\ ret = Pending
    /\ ret' = Ok(calc_property_score(call.company, call.fee,
                                     call.green_ratio, call.volume_ratio))
    /\ UNCHANGED <<database, call>>

CalcDeveloperScore ==
    /\ call.op = "calc_developer_score"
    /\ ret = Pending
    /\ ret' = Ok(calc_developer_score(call.developer))
    /\ UNCHANGED <<database, call>>

\* sub_scores given to calc_total_score: with all five dimensions (whole and
\* fractional scores), with dimensions missing, in another order, empty
TotalSubScores ==
    { << <<"price", RInt(8)>>, <<"school", RInt(10)>>, <<"facilities", RInt(6)>>,
         <<"property_mgmt", RInt(7)>>, <<"developer", RInt(5)>> >>,
      << <<"price", R(77, 10)>>, <<"school", RInt(7)>>, <<"facilities", R(17, 2)>>,
         <<"property_mgmt", R(13, 2)>>, <<"developer", RInt(3)>> >>,
      << <<"developer", RInt(10)>>, <<"facilities", R(25, 4)>>, <<"price", RInt(1)>> >>,
      << <<"school", RInt(5)>> >>,
      << <<"price", RInt(9)>>, <<"location", RInt(9)>> >>,
      << >> }

\* the sampled weights and a vector of weights with no finite decimal expansion
TotalWeights ==
    WeightSamples \cup { Weights(R(1, 3), R(1, 8), R(1, 7), R(1, 8), R(2, 3)) }

TotalCalls ==
    [op : {"calc_total_score"}, sub_scores : TotalSubScores, weights : TotalWeights]

CalcTotalScore ==
    /\ call.op = "calc_total_score"
    /\ ret = Pending
    /\ ret' = Ok(calc_total_score(call.sub_scores, call.weights))
    /\ UNCHANGED <<database, call>>

-----------------------------------------------------------------------------
(* Invocations of DataAggregator.score_community *)

ScorePrices == {6, 8, 9, 11, 12}

\* a well-formed band and one with price_min > price_max
ScoreBands == { <<6, 10>>, <<10, 6>> }

ScorePois ==
    { Poi("ditie", None), Poi("ditie", Some(300)), Poi("ditie", Some(500)),
      Poi("ditie", Some(501)), Poi("ditie", Some(800)),
      Poi("yiyuan", None), Poi("yiyuan", Some(300)) }

ScoreCall(c, r, ps, b, w) ==
    [op |-> "score_community", community |-> c, school_rank |-> r, pois |-> ps,
     price_min |-> b[1], price_max |-> b[2], weights |-> w]

\* every combination of present and absent optional inputs, with every POI list
AbsenceCalls ==
    { ScoreCall(Community(p, c, f, g, v, d), r, ps, <<6, 10>>, DefaultWeights) :
        p \in Opt({8}), c \in Opt({"biguiyuan_fuwu"}), f \in {None},
        g \in Opt({R(40, 100)}), v \in Opt({R(3, 2)}), d \in Opt({"wanke"}),
        r \in Opt({"shizhongdian"}),
        ps \in SeqUpTo(ScorePois, MaxScorePois) }

\* communities from the best to the worst on the property and developer scores
ValueCommunities(p) ==
    { Community(p, Some("biguiyuan_fuwu"), Some(R(7, 2)),
                Some(R(40, 100)), Some(R(3, 2)), Some("wanke")),
      Community(p, Some("wuye_top50"), None, Some(R(30, 100)), Some(RInt(3)),
                Some("dev_top50")),
      Community(p, Some("qita_wuye"), None, Some(R(10, 100)), Some(RInt(5)),
                Some("qita_kaifashang")),
      Community(p, None, None, None, None, None) }

\* every price against every band, weight vector and school rank
ValueCalls ==
    { ScoreCall(c, r, ps, b, w) :
        c \in UNION {ValueCommunities(p) : p \in Opt(ScorePrices)},
        r \in Opt({"shizhongdian", "putong"}),
        ps \in { << >>, <<Poi("ditie", Some(300))>>,
                 <<Poi("ditie", Some(800)), Poi("yiyuan", Some(800))>> },
        b \in ScoreBands,
        w \in WeightSamples }

\* every price, and 0, against a band of one price, a band from 0 and the
\* band from 0 to 0
BandCalls ==
    { ScoreCall(Community(Some(p), Some("biguiyuan_fuwu"), Some(R(7, 2)),
                          Some(R(40, 100)), Some(R(3, 2)), Some("wanke")),
                None, << >>, b, DefaultWeights) :
        p \in ScorePrices \cup {0}, b \in { <<8, 8>>, <<0, 12>>, <<0, 0>> } }

ScoreCalls == AbsenceCalls \cup ValueCalls \cup BandCalls

ScoreCommunity ==
    /\ call.op = "score_community"
    /\ ret = Pending
    /\ ret' = score_community(call.community, call.school_rank, call.pois,
                              call.price_min, call.price_max, call.weights)
    /\ UNCHANGED <<database, call>>

-----------------------------------------------------------------------------
(* Invocations of ProConAnalyzer.analyze *)

SubScores(p, s, f, m, d) ==
    << <<"price", p>>, <<"school", s>>, <<"facilities", f>>,
       <<"property_mgmt", m>>, <<"developer", d>> >>

\* scores at and next to the two thresholds
ThresholdScores == {RInt(4), R(41, 10), R(79, 10), RInt(8)}

\* dicts whose keys come in another order, are missing, or are no dimension
KeyOrders ==
    { <<"price", "school", "facilities", "property_mgmt", "developer">>,
      <<"developer", "property_mgmt", "facilities", "school", "price">>,
      <<"developer", "price">>,
      <<"school">>,
      <<"price", "location">>,
      << >> }

OtherSubScores ==
    UNION { {[i \in 1..Len(ks) |-> <<ks[i], vs[i]>>] : vs \in [1..Len(ks) -> {RInt(2), RInt(9)}]}
            : ks \in KeyOrders }

FullData ==
    { <<"avg_price", Some(8)>>, <<"developer", Some("wanke")>>,
      <<"property_company", Some("biguiyuan_fuwu")>> }

\* community_data with every attribute, with None attributes, with keys missing
DataSamples ==
    { FullData,
      { <<"avg_price", None>>, <<"developer", None>>, <<"property_company", None>> },
      { <<"developer", Some("wanke")>> },
      {} }

AnalyzerPoi(type, distance) == [type |-> type, distance |-> distance]

AnalyzerPoiLists ==
    { << >>,
      <<AnalyzerPoi("subway", Some(200))>>,
      <<AnalyzerPoi("subway", Some(500))>>,
      <<AnalyzerPoi("subway", Some(800))>>,
      <<AnalyzerPoi("yiyuan", Some(200))>>,
      <<AnalyzerPoi("yiyuan", None)>>,
      <<AnalyzerPoi("subway", None)>>,
      <<AnalyzerPoi("subway", Some(800)), AnalyzerPoi("subway", Some(300)),
        AnalyzerPoi("subway", Some(100))>>,
      <<AnalyzerPoi("subway", Some(300)), AnalyzerPoi("subway", None)>> }

AnalyzeCall(ss, data, r, ps) ==
    [op |-> "analyze", sub_scores |-> ss, community_data |-> data,
     school_rank |-> r, pois |-> ps]

AnalyzeCalls ==
    { AnalyzeCall(SubScores(v[1], v[2], v[3], v[4], v[5]), FullData, None, << >>) :
        v \in [1..5 -> ThresholdScores] }
    \cup
    { AnalyzeCall(ss, data, r, ps) :
        ss \in OtherSubScores, data \in DataSamples,
        r \in Opt({"shizhongdian", "quzhongdian", "putong", "qita"}),
        ps \in AnalyzerPoiLists }

Analyze ==
    /\ call.op = "analyze"
    /\ ret = Pending
    /\ ret' = analyze(call.sub_scores, call.community_data, call.school_rank, call.pois)
    /\ UNCHANGED <<database, call>>

-----------------------------------------------------------------------------
(* The scoring specification: one call of a ScoringEngine function, of      *)
(* analyze or of score_community on inputs drawn from the domains above.    *)

Init ==
    /\ database = NoDatabase
    /\ call \in PriceCalls \cup SchoolCalls \cup FacilitiesCalls \cup PropertyCalls
                \cup DeveloperCalls \cup TotalCalls \cup AnalyzeCalls \cup ScoreCalls
    /\ ret = Pending

Next ==
    \/ CalcPriceScore
    \/ CalcSchoolScore
    \/ CalcFacilitiesScore
    \/ CalcPropertyScore
    \/ CalcDeveloperScore
    \/ CalcTotalScore
    \/ Analyze
    \/ ScoreCommunity

Spec == Init /\ [][Next]_vars

-----------------------------------------------------------------------------
(* The search specification: the tables hold some rows and one request is   *)
(* served: a search by search_and_rank, a filter_communities query, or a    *)
(* detail request by get_community_detail.                                  *)

CommunityRow(id, city, district, avg_price) ==
    [id |-> id, city |-> city, district |-> district, avg_price |-> avg_price,
     property_company |-> Some("biguiyuan_fuwu"), property_fee |-> Some(R(7, 2)),
     green_ratio |-> Some(R(30, 100)), volume_ratio |-> Some(R(5, 2)),
     developer |-> Some("wanke")]

\* the rows of the searched city, with and without district and price, and a
\* row of another city
SearchRows ==
    ({"shanghai"} \X {Some("pudong"), None} \X Opt({6, 10}))
    \cup {<<"suzhou", Some("pudong"), Some(6)>>}

\* every table of at most MaxCommunities rows, ids in table order
CommunityTables ==
    UNION { { [i \in 1..n |-> CommunityRow(i, x[i][1], x[i][2], x[i][3])] :
                x \in [1..n -> SearchRows] }
            : n \in 0..MaxCommunities }

SchoolRow(community_id, school_rank, year) ==
    [community_id |-> community_id, school_rank |-> school_rank, year |-> year]

SchoolTables ==
    { << >>,
      <<SchoolRow(1, Some("shizhongdian"), Some(2024))>>,
      <<SchoolRow(2, Some("putong"), None), SchoolRow(2, Some("shizhongdian"), Some(2023)),
        SchoolRow(1, Some("quzhongdian"), Some(2023)), SchoolRow(1, Some("putong"), Some(2023))>>,
      <<SchoolRow(1, Some("putong"), Some(2022)), SchoolRow(1, Some("quzhongdian"), None),
        SchoolRow(1, Some("shizhongdian"), Some(2024)), SchoolRow(1, None, Some(2023))>>,
      <<SchoolRow(1, Some("quzhongdian"), None), SchoolRow(1, Some("shizhongdian"), None),
        SchoolRow(2, None, Some(0)), SchoolRow(2, Some("putong"), Some(-1))>> }

PoiRow(community_id, category, distance) ==
    [community_id |-> community_id, category |-> category, distance |-> distance]

PoiTables ==
    { << >>,
      <<PoiRow(1, "ditie", Some(300))>>,
      <<PoiRow(2, "ditie", None)>>,
      <<PoiRow(1, "yiyuan", Some(800)), PoiRow(2, "ditie", Some(300)),
        PoiRow(2, "yiyuan", None)>> }

SearchCalls ==
    { [op |-> "search_and_rank", city |-> "shanghai", district |-> d,
       price_min |-> b[1], price_max |-> b[2], weights |-> DefaultWeights] :
        d \in {None, Some("pudong")}, b \in { <<6, 10>>, <<8, 12>>, <<0, 8>> } }

\* One school query per filtered community: any assignment of the ranks the
\* queries may return.
SearchAndRank ==
    /\ call.op = "search_and_rank"
    /\ ret = Pending
    /\ \E ranks \in [1..Len(database.communities) ->
                        Opt({"shizhongdian", "quzhongdian", "putong"})] :
          /\ \A id \in 1..Len(database.communities) :
                ranks[id] \in first_school_ranks(database.school_districts, id)
          /\ ret' = search_and_rank(database, call.city, call.district,
                                    call.price_min, call.price_max, call.weights, ranks)
    /\ UNCHANGED <<database, call>>

\* tables for filter_communities: prices on and off the edges of the bands
FilterTables ==
    UNION { { [i \in 1..n |-> CommunityRow(i, x[i][1], x[i][2], x[i][3])] :
                x \in [1..n -> {"shanghai", "suzhou"}
                               \X {Some("pudong"), Some("xuhui"), None}
                               \X Opt({6, 10})] }
            : n \in 0..MaxCommunities }

\* no district, an empty one and a named one; a band that holds both prices,
\* one that holds neither, and one with price_min > price_max
FilterCalls ==
    { [op |-> "filter_communities", city |-> "shanghai", district |-> d,
       price_min |-> b[1], price_max |-> b[2]] :
        d \in {None, Some(""), Some("pudong")}, b \in { <<6, 10>>, <<7, 9>>, <<10, 6>> } }

FilterCommunities ==
    /\ call.op = "filter_communities"
    /\ ret = Pending
    /\ ret' = Ok(filter_communities(database.communities, call.city, call.district,
                                    call.price_min, call.price_max))
    /\ UNCHANGED <<database, call>>

\* tables for the detail request: the price absent, negative, zero and
\* positive (no multiple of 10, one whose product with 0.7 is exact, one whose
\* product falls below the integer)
DetailTables ==
    UNION { { [i \in 1..n |-> CommunityRow(i, "shanghai", Some("pudong"), x[i])] :
                x \in [1..n -> Opt({-5, 0, 6, 10, 90})] }
            : n \in 0..MaxCommunities }

\* the ids of the rows a table can hold, and one more
DetailCalls ==
    { [op |-> "get_community_detail", community_id |-> id] : id \in 1..(MaxCommunities + 1) }

GetCommunityDetail ==
    /\ call.op = "get_community_detail"
    /\ ret = Pending
    /\ ret' = get_community_detail(database, call.community_id)
    /\ UNCHANGED <<database, call>>

InitSearch ==
    /\ \/ /\ database \in [communities : CommunityTables, school_districts : SchoolTables,
                            nearby_pois : PoiTables]
          /\ call \in SearchCalls
       \/ /\ database \in [communities : FilterTables, school_districts : {<< >>},
                            nearby_pois : {<< >>}]
          /\ call \in FilterCalls
       \/ /\ database \in [communities : DetailTables, school_districts : SchoolTables,
                            nearby_pois : PoiTables]
          /\ call \in DetailCalls
    /\ ret = Pending

NextSearch ==
    \/ SearchAndRank
    \/ FilterCommunities
    \/ GetCommunityDetail

SpecSearch == InitSearch /\ [][NextSearch]_vars

-----------------------------------------------------------------------------
(* The concurrent specification: several requests are in flight on the one   *)
(* DataAggregator instance and on the one set of tables, their statements    *)
(* interleaved in any order.  Here call[i] is the i-th invocation and ret[i] *)
(* its frame: the position pc, the locals and, once done, the outcome out.   *)
(* Nothing but the frames is written: the instance holds the stateless       *)
(* engine and analyzer, the rank tables are read only.                       *)

\* most invocations in flight
MaxInvocations == 2

ConcurrentDatabase ==
    [communities |-> <<CommunityRow(1, "shanghai", Some("pudong"), Some(6)),
                       CommunityRow(2, "shanghai", Some("pudong"), Some(10))>>,
     school_districts |-> <<SchoolRow(1, Some("shizhongdian"), Some(2024)),
                            SchoolRow(2, Some("putong"), Some(2023)),
                            SchoolRow(2, Some("quzhongdian"), Some(2023))>>,
     nearby_pois |-> <<PoiRow(1, "ditie", Some(300)), PoiRow(2, "yiyuan", Some(800))>>]

ConcurrentCalls ==
    { ScoreCall(c, r, ps, <<6, 10>>, DefaultWeights) :
        c \in {x \in ValueCommunities(Some(8)) : x.developer \in {Some("wanke"), None}},
        r \in {Some("shizhongdian")},
        ps \in { <<Poi("ditie", Some(300))>>, <<Poi("ditie", None)>> } }
    \cup
    { [op |-> "search_and_rank", city |-> "shanghai", district |-> None,
       price_min |-> b[1], price_max |-> b[2], weights |-> DefaultWeights] :
        b \in { <<6, 10>>, <<8, 12>> } }

\* the frame of an invocation that has not started
NewFrame ==
    [pc |-> "start", sub_scores |-> << >>, total_score |-> RInt(0),
     analysis |-> Pending, communities |-> << >>, results |-> << >>, out |-> Pending]

\* the locals of invocation i with every invocation's locals kept in one
\* place (on the shared instance), that of the first invocation
locals_shared(frames, i) == frames[1]

\* The locals of invocation i: those of its own frame.
locals(frames, i) == frames[i]

\* the arguments with the POI dicts rewritten in place to the analyzer's keys
score_community_arguments_in_place(invocation) ==
    [invocation EXCEPT !.pois = analyzer_pois(@)]

\* The arguments of a score_community invocation as lines 115-137 leave them:
\* community is read with getattr into the new dict community_data, each POI
\* dict with .get into a new dict of analyzer_pois, and analyze only reads
\* what it is handed; nothing is stored into an argument.
score_community_arguments(invocation) == invocation

\* score_community, lines 91-108: sub_scores is built
ScoreSubScores(i) ==
    /\ call[i].op = "score_community"
    /\ ret[i].pc = "start"
    /\ LET sub_scores == sub_scores_of(call[i].community, call[i].school_rank, call[i].pois,
                                       call[i].price_min, call[i].price_max)
       IN  ret' = [ret EXCEPT ![i] =
                     IF \E k \in 1..Len(sub_scores) : ZeroDivided(sub_scores[k][2])
                     THEN [@ EXCEPT !.pc = "done", !.out = Raised("ZeroDivisionError")]
                     ELSE [@ EXCEPT !.pc = "scored", !.sub_scores = sub_scores]]
    /\ UNCHANGED <<database, call>>

\* score_community, lines 111-112: weighted_total and total_score
ScoreTotal(i) ==
    /\ call[i].op = "score_community"
    /\ ret[i].pc = "scored"
    /\ ret' = [ret EXCEPT ![i] =
                 [@ EXCEPT !.pc = "totalled",
                           !.total_score =
                               total_score_of(calc_total_score(locals(ret, i).sub_scores,
                                                               call[i].weights))]]
    /\ UNCHANGED <<database, call>>

\* score_community, lines 115-137: community_data, analyzer_pois, analyze
ScoreAnalyze(i) ==
    /\ call[i].op = "score_community"
    /\ ret[i].pc = "totalled"
    /\ LET analysis == analyze(locals(ret, i).sub_scores,
                               community_data_of(call[i].community),
                               call[i].school_rank, analyzer_pois(call[i].pois))
       IN  ret' = [ret EXCEPT ![i] =
                     IF analysis.status = "raised"
                     THEN [@ EXCEPT !.pc = "done", !.out = analysis]
                     ELSE [@ EXCEPT !.pc = "analysed", !.analysis = analysis]]
    /\ call' = [call EXCEPT ![i] = score_community_arguments(call[i])]
    /\ UNCHANGED database

\* score_community, lines 139-145: the dict is returned
ScoreReturn(i) ==
    /\ call[i].op = "score_community"
    /\ ret[i].pc = "analysed"
    /\ ret' = [ret EXCEPT ![i] =
                 [@ EXCEPT !.pc = "done",
                           !.out = score_result(locals(ret, i).total_score,
                                                locals(ret, i).sub_scores,
                                                locals(ret, i).analysis)]]
    /\ UNCHANGED <<database, call>>

\* search_and_rank, lines 179-187: the communities are filtered
SearchFilter(i) ==
    /\ call[i].op = "search_and_rank"
    /\ ret[i].pc = "start"
    /\ ret' = [ret EXCEPT ![i] =
                 [@ EXCEPT !.pc = "loop",
                           !.communities =
                               filter_communities(database.communities, call[i].city,
                                                  call[i].district, call[i].price_min,
                                                  call[i].price_max)]]
    /\ UNCHANGED <<database, call>>

\* search_and_rank, lines 189-239: one pass of the loop, for the community
\* behind those already scored
SearchScoreNext(i) ==
    /\ call[i].op = "search_and_rank"
    /\ ret[i].pc = "loop"
    /\ Len(locals(ret, i).results) < Len(locals(ret, i).communities)
    /\ LET community == locals(ret, i).communities[Len(locals(ret, i).results) + 1]
       IN  \E school_rank \in first_school_ranks(database.school_districts, community.id) :
              LET scored == score_community(community, school_rank,
                                            pois_of(database.nearby_pois, community.id),
                                            call[i].price_min, call[i].price_max,
                                            call[i].weights)
              IN  ret' = [ret EXCEPT ![i] =
                            IF scored.status = "raised"
                            THEN [@ EXCEPT !.pc = "done", !.out = scored]
                            ELSE [@ EXCEPT !.results =
                                     Append(locals(ret, i).results,
                                            result_row(community, scored.value))]]
    /\ UNCHANGED <<database, call>>

\* search_and_rank, lines 241-243: the results are sorted and returned
SearchSort(i) ==
    /\ call[i].op = "search_and_rank"
    /\ ret[i].pc = "loop"
    /\ Len(locals(ret, i).results) >= Len(locals(ret, i).communities)
    /\ ret' = [ret EXCEPT ![i] =
                 [@ EXCEPT !.pc = "done",
                           !.out = Ok(sort_by_score(locals(ret, i).results,
                                                    Len(locals(ret, i).results)))]]
    /\ UNCHANGED <<database, call>>

InitConcurrent ==
    /\ database = ConcurrentDatabase
    /\ call \in [1..MaxInvocations -> ConcurrentCalls]
    /\ ret = [i \in 1..MaxInvocations |-> NewFrame]

NextConcurrent ==
    \E i \in 1..MaxInvocations :
        \/ ScoreSubScores(i)
        \/ ScoreTotal(i)
        \/ ScoreAnalyze(i)
        \/ ScoreReturn(i)
        \/ SearchFilter(i)
        \/ SearchScoreNext(i)
        \/ SearchSort(i)

SpecConcurrent == InitConcurrent /\ [][NextConcurrent]_vars

-----------------------------------------------------------------------------
(* Properties *)

Returned == ret.status = "ok"

Done == ret.status # "pending"

EngineOps ==
    {"calc_price_score", "calc_school_score", "calc_facilities_score",
     "calc_property_score", "calc_developer_score"}

InZeroToTen(x) == ~ZeroDivided(x) /\ RLe(RInt(0), x) /\ RLe(x, RInt(10))

\* C1: every sub-score a ScoringEngine function returns, and every one of the
\* five entries of the sub_scores score_community returns, lies in [0,10],
\* malformed inputs (price_min > price_max, non-positive prices, negative or
\* absent distances, unknown categories, absent attributes) included.
C1_SubScoresInRange ==
    /\ (call.op \in EngineOps /\ Returned) => InZeroToTen(ret.value)
    /\ (call.op = "score_community" /\ Returned) =>
          /\ Len(ret.value.sub_scores) = 5
          /\ \A i \in 1..5 :
                /\ ret.value.sub_scores[i][1] = Dimensions[i]
                /\ InZeroToTen(ret.value.sub_scores[i][2])

\* a malformed band (price_min > price_max) whose price lands in the
\* over-budget interpolation
C1_Witness ==
    /\ call.op = "calc_price_score"
    /\ Returned
    /\ call.price_min > call.price_max
    /\ RLt(RInt(1), ret.value)
    /\ RLt(ret.value, RInt(4))

WeightSum(w) ==
    RAdd(RAdd(RAdd(RAdd(w.price, w.school), w.facilities), w.property_mgmt), w.developer)

\* C2 as stated: whatever the sum of the five weights (each in [0,1]), the
\* score score_community returns lies in [0,100].
C2_ScoreWithin100 ==
    (call.op = "score_community" /\ Returned) =>
        /\ RLe(RInt(0), ret.value.score)
        /\ RLe(ret.value.score, RInt(100))

\* C2 as amended: with each weight in [0,1] the score lies in [0,500], and in
\* [0,100] when the weights sum to at most 1.
C2_ScoreWithinWeightSum ==
    (call.op = "score_community" /\ Returned) =>
        /\ RLe(RInt(0), ret.value.score)
        /\ RLe(ret.value.score, RInt(500))
        /\ RLe(WeightSum(call.weights), RInt(1)) => RLe(ret.value.score, RInt(100))

\* the best community under the default weights scores the full 100
C2_Witness ==
    /\ call.op = "score_community"
    /\ Returned
    /\ call.weights = DefaultWeights
    /\ ret.value.score = RInt(100)

\* C3: search_and_rank returns one result per community filter_communities
\* returns, none dropped or duplicated, in non-increasing order of score.
C3_SearchReturnsRanked ==
    (call.op = "search_and_rank" /\ Done) =>
        LET filtered == filter_communities(database.communities, call.city, call.district,
                                           call.price_min, call.price_max)
        IN  /\ Returned
            /\ Len(ret.value) = Len(filtered)
            /\ \A i \in 1..Len(filtered) :
                  Cardinality({j \in 1..Len(ret.value) : ret.value[j].id = filtered[i].id}) = 1
            /\ \A i, j \in 1..Len(ret.value) :
                  i < j => RLe(ret.value[j].score, ret.value[i].score)

\* C4: score_community returns and never raises, whichever optional inputs
\* are absent (attributes, school rank, the distance of any POI).
C4_ScoreCommunityNeverRaises ==
    (call.op = "score_community" /\ Done) => Returned

\* The function C5 states, its cases taken in the order the claim lists them.
C5_Piecewise(avg_price, price_min, price_max) ==
    IF avg_price = None THEN RInt(5)
    ELSE LET a == avg_price[1]
         IN  IF a <= price_min THEN RInt(10)
             ELSE IF a <= price_max
                  THEN R(10 * (price_max - price_min) - 4 * (a - price_min),
                         price_max - price_min)
             ELSE IF 5 * a < 6 * price_max
                  THEN R(4 * price_max - 15 * (a - price_max), price_max)
             ELSE RInt(1)

WellFormedPriceCall ==
    /\ call.op = "calc_price_score"
    /\ 0 <= call.price_min
    /\ call.price_min <= call.price_max
    /\ (call.avg_price # None => call.avg_price[1] >= 0)

\* C5: on non-negative prices with price_min <= price_max, calc_price_score is
\* 5 for an absent price, 10 up to price_min, 10 - 4(a - min)/(max - min) up to
\* price_max (6 at price_max), 4 - 3(a - max)/(0.2 max) below 1.2 price_max,
\* and 1 from 1.2 price_max on.
C5_PricePiecewise ==
    (WellFormedPriceCall /\ Returned) =>
        /\ ret.value = C5_Piecewise(call.avg_price, call.price_min, call.price_max)
        /\ (call.avg_price = Some(call.price_max) /\ call.price_min < call.price_max)
              => ret.value = RInt(6)

\* a price strictly inside the over-budget band
C5_Witness ==
    /\ WellFormedPriceCall
    /\ Returned
    /\ call.avg_price # None
    /\ call.avg_price[1] > call.price_max
    /\ 5 * call.avg_price[1] < 6 * call.price_max
    /\ RLt(RInt(1), ret.value)

\* C6 as stated: avg_price >= 1.2 * price_max gives exactly 1.0, for all
\* price_min and price_max.
C6_AtOrAboveUpperBoundIsOne ==
    (/\ call.op = "calc_price_score"
     /\ Returned
     /\ call.avg_price # None
     /\ 5 * call.avg_price[1] >= 6 * call.price_max) => ret.value = RInt(1)

\* C6 as amended: avg_price >= 1.2 * price_max and avg_price > price_min give
\* exactly 1.0 (a price at or below price_min scores 10.0 first).
C6_AboveMinAndUpperBoundIsOne ==
    (/\ call.op = "calc_price_score"
     /\ Returned
     /\ call.avg_price # None
     /\ call.avg_price[1] > call.price_min
     /\ 5 * call.avg_price[1] >= 6 * call.price_max) => ret.value = RInt(1)

\* a price exactly at 1.2 * price_max, above price_min
C6_Witness ==
    /\ call.op = "calc_price_score"
    /\ Returned
    /\ call.avg_price # None
    /\ call.price_max > 0
    /\ call.avg_price[1] > call.price_min
    /\ 5 * call.avg_price[1] = 6 * call.price_max
    /\ ret.value = RInt(1)

\* C7: for fixed price_min and price_max, a higher avg_price never scores
\* higher: the returned score is >= the score of every price above it.
C7_PriceMonotone ==
    (call.op = "calc_price_score" /\ Returned /\ call.avg_price # None) =>
        \A a2 \in Prices :
            call.avg_price[1] <= a2 =>
                RLe(calc_price_score(Some(a2), call.price_min, call.price_max), ret.value)

\* a price inside the budget whose successor scores strictly lower
C7_Witness ==
    /\ call.op = "calc_price_score"
    /\ Returned
    /\ call.avg_price # None
    /\ call.avg_price[1] > call.price_min
    /\ call.avg_price[1] < call.price_max
    /\ RLt(calc_price_score(Some(call.avg_price[1] + 1), call.price_min, call.price_max),
           ret.value)

\* The distance score, weights and per-category best score as C8 states them.
C8_DistanceScore(distance) ==
    IF distance <= 500 THEN 10 ELSE IF distance <= 1000 THEN 7
    ELSE IF distance <= 2000 THEN 4 ELSE 1

\* twice the weight of a category
C8_TwiceWeight(category) ==
    CASE category = "ditie" -> 6
      [] category \in {"yiyuan", "shangchang"} -> 4
      [] category \in {"gongyuan", "xuexiao"} -> 3
      [] OTHER -> 2

C8_Best(pois, category) ==
    LET scores == {C8_DistanceScore(pois[i].distance[1]) :
                      i \in {j \in 1..Len(pois) : pois[j].category = category}}
    IN  CHOOSE m \in scores : \A x \in scores : x <= m

RECURSIVE C8_SumWeightedBest(_, _)
C8_SumWeightedBest(pois, categories) ==
    IF categories = {} THEN 0
    ELSE LET c == CHOOSE x \in categories : TRUE
         IN  C8_TwiceWeight(c) * C8_Best(pois, c) + C8_SumWeightedBest(pois, categories \ {c})

RECURSIVE C8_SumWeights(_)
C8_SumWeights(categories) ==
    IF categories = {} THEN 0
    ELSE LET c == CHOOSE x \in categories : TRUE
         IN  C8_TwiceWeight(c) + C8_SumWeights(categories \ {c})

\* C8: calc_facilities_score is 0 on the empty list; on a non-empty list with
\* present distances it is the weighted average over the categories present of
\* the best distance score per category, capped at 10 (weights 3, 2, 2, 1.5,
\* 1.5, and 1 for any other category); one subway POI at 300m scores 10.
C8_FacilitiesWeightedAverage ==
    (call.op = "calc_facilities_score" /\ Returned) =>
        LET pois == call.pois
            present == {pois[i].category : i \in 1..Len(pois)}
        IN  /\ pois = << >> => ret.value = RInt(0)
            /\ (pois # << >> /\ \A i \in 1..Len(pois) : pois[i].distance # None) =>
                  ret.value = RMin(R(C8_SumWeightedBest(pois, present), C8_SumWeights(present)),
                                   RInt(10))
            /\ pois = <<Poi("ditie", Some(300))>> => ret.value = RInt(10)

\* two categories of different weights, one of them twice in the
\* list, and an average that is none of the four distance scores
C8_Witness ==
    /\ call.op = "calc_facilities_score"
    /\ Returned
    /\ Len(call.pois) = 3
    /\ \A i \in 1..3 : call.pois[i].distance # None
    /\ Cardinality({call.pois[i].category : i \in 1..3}) = 2
    /\ Cardinality({call.pois[i].distance : i \in 1..3}) = 2
    /\ ret.value \notin {RInt(10), RInt(7), RInt(4), RInt(1)}

\* C9: calc_property_score is 5 + c + g + v clamped to [0,10]: c is 3 for a
\* top-10 company, else 1.5 for a top-50 company, else 0; g is +1 for
\* green_ratio >= 0.35 and -1 for green_ratio < 0.20; v is +1 for volume_ratio
\* <= 2.0 and -1 for volume_ratio > 4.0; absent values add 0; fee changes nothing.
C9_PropertyFormula ==
    (call.op = "calc_property_score" /\ Returned) =>
        LET c == IF call.company # None /\ call.company[1] \in PROPERTY_RANKS.top10
                 THEN RInt(3)
                 ELSE IF call.company # None /\ call.company[1] \in PROPERTY_RANKS.top50
                 THEN R(3, 2)
                 ELSE RInt(0)
            g == IF call.green_ratio = None THEN 0
                 ELSE IF RLe(R(35, 100), call.green_ratio[1]) THEN 1
                 ELSE IF RLt(call.green_ratio[1], R(20, 100)) THEN -1
                 ELSE 0
            v == IF call.volume_ratio = None THEN 0
                 ELSE IF RLe(call.volume_ratio[1], RInt(2)) THEN 1
                 ELSE IF RLt(RInt(4), call.volume_ratio[1]) THEN -1
                 ELSE 0
            sum == RAdd(c, RInt(5 + g + v))
            clamped == IF RLt(sum, RInt(0)) THEN RInt(0)
                       ELSE IF RLt(RInt(10), sum) THEN RInt(10)
                       ELSE sum
        IN  /\ ret.value = clamped
            /\ \A fee \in Opt(Fees) :
                  calc_property_score(call.company, fee, call.green_ratio,
                                      call.volume_ratio) = ret.value

\* a top-50 company with a fee, green_ratio exactly 0.35 and volume_ratio
\* above 4.0: 5 + 1.5 + 1 - 1
C9_Witness ==
    /\ call.op = "calc_property_score"
    /\ Returned
    /\ call.company = Some("wuye_top50")
    /\ call.fee # None
    /\ call.green_ratio = Some(R(35, 100))
    /\ call.volume_ratio = Some(R(41, 10))
    /\ ret.value = R(13, 2)

\* Whether a rendering of the template table's line for the dimension is in lines.
HasLine(lines, templates, dimension) ==
    \E i \in 1..Len(lines) : lines[i][1] = DictGet(templates, dimension, None).text

\* C10: in analyze, for each of the five dimensions, the pro line is in pros
\* exactly when the sub-score is >= 8 and the con line is in cons exactly when
\* it is <= 4; a sub-score strictly between yields neither, and no dimension
\* is in both lists.
C10_ProsAndConsByThreshold ==
    (call.op = "analyze" /\ Returned) =>
        \A k \in 1..Len(Dimensions) :
            LET d == Dimensions[k]
                given == \E i \in 1..Len(call.sub_scores) : call.sub_scores[i][1] = d
                score == SubGet(call.sub_scores, d, RInt(0))
                pro == HasLine(ret.value.pros, PRO_TEMPLATES, d)
                con == HasLine(ret.value.cons, CON_TEMPLATES, d)
            IN  /\ pro <=> (given /\ RLe(RInt(8), score))
                /\ con <=> (given /\ RLe(score, RInt(4)))
                /\ (given /\ RLt(RInt(4), score) /\ RLt(score, RInt(8))) => (~pro /\ ~con)
                /\ ~(pro /\ con)

\* one dimension at exactly 8, one at exactly 4, one strictly between
C10_Witness ==
    /\ call.op = "analyze"
    /\ Returned
    /\ SubGet(call.sub_scores, "price", RInt(0)) = RInt(8)
    /\ SubGet(call.sub_scores, "school", RInt(0)) = RInt(4)
    /\ SubGet(call.sub_scores, "facilities", RInt(0)) = R(79, 10)
    /\ Len(ret.value.pros) >= 1
    /\ Len(ret.value.cons) >= 1

\* The place in Dimensions of the dimension whose template rendered the line.
DimensionIndex(templates, line) ==
    CHOOSE k \in 1..Len(Dimensions) : DictGet(templates, Dimensions[k], None).text = line[1]

InDimensionOrder(lines, templates) ==
    \A i, j \in 1..Len(lines) :
        i < j => DimensionIndex(templates, lines[i]) < DimensionIndex(templates, lines[j])

\* C11: the pros and the cons analyze returns are each in the order price,
\* school, facilities, property_mgmt, developer, whatever the order in which
\* the keys of sub_scores were inserted.
C11_ProsConsInDimensionOrder ==
    (call.op = "analyze" /\ Returned) =>
        /\ InDimensionOrder(ret.value.pros, PRO_TEMPLATES)
        /\ InDimensionOrder(ret.value.cons, CON_TEMPLATES)

\* C12: a rendered pro or con line whose placeholder attribute is missing from
\* community_data, or present with the value None, shows the unknown string;
\* the line is emitted and analyze does not raise on account of it.
C12_MissingAttributeRendersUnknown ==
    (call.op = "analyze" /\ Returned) =>
        /\ \A k \in 1..Len(call.sub_scores) :
              LET d == call.sub_scores[k][1]
                  score == call.sub_scores[k][2]
              IN  /\ (d \in {"price", "property_mgmt", "developer"}
                        /\ RLe(RInt(PRO_THRESHOLD), score)) =>
                          HasLine(ret.value.pros, PRO_TEMPLATES, d)
                  /\ (d = "price" /\ RLe(score, RInt(CON_THRESHOLD))) =>
                          HasLine(ret.value.cons, CON_TEMPLATES, d)
        /\ \A lines \in {ret.value.pros, ret.value.cons} :
              \A i \in 1..Len(lines) :
                  LET field == IF lines[i][1] \in {"pro_price", "con_price"} THEN "avg_price"
                               ELSE IF lines[i][1] = "pro_property_mgmt" THEN "property_company"
                               ELSE IF lines[i][1] = "pro_developer" THEN "developer"
                               ELSE "none"
                  IN  (field # "none" /\ DictGet(call.community_data, field, None) = None)
                          => lines[i] = <<lines[i][1], "weizhi">>

\* The place of a tag in the order school tag, near-transit tag, high-value tag.
TagRank(tag) ==
    CASE tag \in {"shizhongdian_xuequ", "quzhongdian_xuequ"} -> 1
      [] tag = "ditie_pang" -> 2
      [] tag = "gao_xingjiabi" -> 3
      [] OTHER -> 0

HasTag(tags, tag) == \E i \in 1..Len(tags) : tags[i] = tag

\* C13: the tags analyze returns are a subsequence of school tag, near-transit
\* tag, high-value tag, each at most once; the city-key tag is there exactly
\* for school_rank "shizhongdian", the district-key tag exactly for
\* "quzhongdian", none for any other or absent rank; the high-value tag is
\* there exactly when the price sub-score is >= 8.
C13_TagsOrderedAndByRule ==
    (call.op = "analyze" /\ Returned) =>
        LET tags == ret.value.tags
        IN  /\ \A i \in 1..Len(tags) : TagRank(tags[i]) # 0
            /\ \A i, j \in 1..Len(tags) : i < j => TagRank(tags[i]) < TagRank(tags[j])
            /\ HasTag(tags, "shizhongdian_xuequ") <=> call.school_rank = Some("shizhongdian")
            /\ HasTag(tags, "quzhongdian_xuequ") <=> call.school_rank = Some("quzhongdian")
            /\ HasTag(tags, "gao_xingjiabi") <=>
                  \E k \in 1..Len(call.sub_scores) :
                      /\ call.sub_scores[k][1] = "price"
                      /\ RLe(RInt(8), call.sub_scores[k][2])

\* all three rules fire on a district-key rank
C13_Witness ==
    /\ call.op = "analyze"
    /\ Returned
    /\ call.school_rank = Some("quzhongdian")
    /\ ret.value.tags = <<"quzhongdian_xuequ", "ditie_pang", "gao_xingjiabi">>

NearTransit(pois) ==
    \E i \in 1..Len(pois) :
        /\ pois[i].category = "ditie"
        /\ pois[i].distance # None
        /\ pois[i].distance[1] <= 500

C15_Matches(c) ==
    /\ c.city = call.city
    /\ (call.district \notin {None, Some("")} => c.district = call.district)
    /\ c.avg_price # None
    /\ call.price_min <= c.avg_price[1]
    /\ c.avg_price[1] <= call.price_max

\* C15: filter_communities returns exactly the stored communities of the
\* requested city, of the requested district when one is given, whose
\* avg_price lies in [price_min, price_max] inclusive; each once, and never a
\* community whose avg_price is absent.
C15_FilterExact ==
    (call.op = "filter_communities" /\ Returned) =>
        /\ \A i \in 1..Len(database.communities) :
              Cardinality({j \in 1..Len(ret.value) : ret.value[j] = database.communities[i]})
                  = IF C15_Matches(database.communities[i]) THEN 1 ELSE 0
        /\ \A j \in 1..Len(ret.value) :
              /\ \E i \in 1..Len(database.communities) : database.communities[i] = ret.value[j]
              /\ ret.value[j].avg_price # None

\* a district is given; one row at price_max is returned, one row with an
\* absent price is left out
C15_Witness ==
    /\ call.op = "filter_communities"
    /\ Returned
    /\ call.district = Some("pudong")
    /\ Len(database.communities) = 2
    /\ Len(ret.value) = 1
    /\ ret.value[1].avg_price = Some(call.price_max)
    /\ \E i \in 1..2 : /\ database.communities[i].avg_price = None
                       /\ database.communities[i].city = call.city
                       /\ database.communities[i].district = call.district

\* The ranks C16 allows for a community: those of its records of the greatest
\* year among the records that have a year; those of its records without a
\* year only when none has a year; the absent rank when it has no record.
C16_Allowed(school_districts, community_id) ==
    LET mine == {i \in 1..Len(school_districts) :
                    school_districts[i].community_id = community_id}
        dated == {i \in mine : school_districts[i].year # None}
        latest == {i \in dated :
                    \A j \in dated : school_districts[j].year[1] <= school_districts[i].year[1]}
    IN  IF mine = {} THEN {None}
        ELSE IF dated # {} THEN {school_districts[i].school_rank : i \in latest}
        ELSE {school_districts[i].school_rank : i \in mine}

\* C16: on the search path and on the detail path the school_rank handed to
\* scoring is one C16_Allowed holds, and the outcome of the request is the one
\* scoring with such a rank gives.
C16_LatestSchoolRecord ==
    /\ (call.op = "search_and_rank" /\ Done) =>
          /\ \A id \in 1..Len(database.communities) :
                first_school_ranks(database.school_districts, id)
                    \subseteq C16_Allowed(database.school_districts, id)
          /\ \E ranks \in [1..Len(database.communities) ->
                              Opt({"shizhongdian", "quzhongdian", "putong"})] :
                /\ \A id \in 1..Len(database.communities) :
                      ranks[id] \in C16_Allowed(database.school_districts, id)
                /\ ret = search_and_rank(database, call.city, call.district,
                                         call.price_min, call.price_max, call.weights, ranks)
    /\ (call.op = "get_community_detail" /\ Done
          /\ call.community_id \in 1..Len(database.communities)) =>
          /\ detail_school_rank(rows_of(database.school_districts, call.community_id))
                \in C16_Allowed(database.school_districts, call.community_id)
          /\ \E rank \in C16_Allowed(database.school_districts, call.community_id) :
                ret = detail_of(database, database.communities[call.community_id],
                                rows_of(database.school_districts, call.community_id), rank)

\* a detail request for a community whose records are an older year, no
\* year and the latest year, in that order in the table: the latest wins
C16_Witness ==
    /\ call.op = "get_community_detail"
    /\ Returned
    /\ call.community_id = 1
    /\ Len(database.school_districts) = 4
    /\ database.school_districts[1] = SchoolRow(1, Some("putong"), Some(2022))
    /\ database.school_districts[2] = SchoolRow(1, Some("quzhongdian"), None)
    /\ database.school_districts[3] = SchoolRow(1, Some("shizhongdian"), Some(2024))
    /\ SubGet(ret.value.sub_scores, "school", RInt(0)) = RInt(10)

\* The weight of a dimension
C17_Weight(weights, dimension) ==
    CASE dimension = "price" -> weights.price
      [] dimension = "school" -> weights.school
      [] dimension = "facilities" -> weights.facilities
      [] dimension = "property_mgmt" -> weights.property_mgmt
      [] dimension = "developer" -> weights.developer

\* The sum over the first k dimensions of sub_score * weight, a dimension
\* missing from sub_scores contributing 0.
RECURSIVE C17_Dot(_, _, _)
C17_Dot(sub_scores, weights, k) ==
    IF k = 0 THEN RInt(0)
    ELSE LET d == Dimensions[k]
             given == {i \in 1..Len(sub_scores) : sub_scores[i][1] = d}
             term == IF given = {} THEN RInt(0)
                     ELSE RMul(sub_scores[CHOOSE i \in given : TRUE][2], C17_Weight(weights, d))
         IN  RAdd(C17_Dot(sub_scores, weights, k - 1), term)

\* C17: calc_total_score returns the sum over the five dimensions of
\* sub_score * weight rounded to 2 decimals (a multiple of 0.01 at most 0.005
\* away from the sum), a missing dimension contributing 0; sub-scores 8, 10,
\* 6, 7, 5 with the weights 0.30, 0.25, 0.20, 0.15, 0.10 give 7.65.
C17_TotalIsRoundedDotProduct ==
    (call.op = "calc_total_score" /\ Returned) =>
        LET dot == C17_Dot(call.sub_scores, call.weights, Len(Dimensions))
            diff == RSub(ret.value, dot)
        IN  /\ RMul(ret.value, RInt(100)).d = 1
            /\ RLe(R(-1, 200), diff)
            /\ RLe(diff, R(1, 200))
            /\ (call.sub_scores = SubScores(RInt(8), RInt(10), RInt(6), RInt(7), RInt(5))
                  /\ call.weights = DefaultWeights) => ret.value = R(765, 100)

\* dimensions missing from sub_scores, and a sum that is no multiple of 0.01
C17_Witness ==
    /\ call.op = "calc_total_score"
    /\ Returned
    /\ Len(call.sub_scores) = 3
    /\ ret.value # C17_Dot(call.sub_scores, call.weights, Len(Dimensions))
    /\ RLt(RInt(0), ret.value)

\* C18: calc_school_score is 10 for "shizhongdian", 7 for "quzhongdian", 5
\* for "putong", 0 for an absent rank and for every other string.
C18_SchoolScoreTable ==
    (call.op = "calc_school_score" /\ Returned) =>
        ret.value = CASE call.school_rank = Some("shizhongdian") -> RInt(10)
                      [] call.school_rank = Some("quzhongdian") -> RInt(7)
                      [] call.school_rank = Some("putong") -> RInt(5)
                      [] OTHER -> RInt(0)

\* an unrecognised, non-empty rank scores 0
C18_Witness ==
    /\ call.op = "calc_school_score"
    /\ Returned
    /\ call.school_rank = Some("qita")
    /\ ret.value = RInt(0)

\* C19: calc_developer_score is 10 for a developer in the top10 set (also when
\* the top50 set holds it too), 7 for one in the top50 set only, 3 for every
\* other developer and for an absent one.
C19_DeveloperScoreTable ==
    (call.op = "calc_developer_score" /\ Returned) =>
        ret.value = IF call.developer = None THEN RInt(3)
                    ELSE IF call.developer[1] \in DEVELOPER_RANKS.top10 THEN RInt(10)
                    ELSE IF call.developer[1] \in DEVELOPER_RANKS.top50
                                                     \ DEVELOPER_RANKS.top10 THEN RInt(7)
                    ELSE RInt(3)

\* a developer that both sets hold scores 10
C19_Witness ==
    /\ call.op = "calc_developer_score"
    /\ Returned
    /\ call.developer # None
    /\ call.developer[1] \in DEVELOPER_RANKS.top10 \cap DEVELOPER_RANKS.top50
    /\ ret.value = RInt(10)

\* The outcomes an invocation has when it runs alone on the tables: the one of
\* score_community, those of search_and_rank for the rows the school queries
\* may return.
C20_Alone(invocation) ==
    IF invocation.op = "score_community"
    THEN { score_community(invocation.community, invocation.school_rank, invocation.pois,
                           invocation.price_min, invocation.price_max, invocation.weights) }
    ELSE { search_and_rank(database, invocation.city, invocation.district,
                           invocation.price_min, invocation.price_max,
                           invocation.weights, ranks) :
             ranks \in { f \in [1..Len(database.communities) ->
                                   Opt({"shizhongdian", "quzhongdian", "putong"})] :
                           \A id \in 1..Len(database.communities) :
                               f[id] \in first_school_ranks(database.school_districts, id) } }

\* C20: however the statements of the invocations in flight interleave, the
\* outcome of each invocation is one it has when run alone on its inputs, and
\* two score_community invocations on the same inputs have the same outcome.
C20_InterleavingIndependent ==
    /\ \A i \in 1..MaxInvocations :
          ret[i].pc = "done" => ret[i].out \in C20_Alone(call[i])
    /\ \A i, j \in 1..MaxInvocations :
          (/\ call[i] = call[j]
           /\ call[i].op = "score_community"
           /\ ret[i].pc = "done"
           /\ ret[j].pc = "done") => ret[i].out = ret[j].out

\* the second invocation has run from start to return on the inputs of the
\* first while the first stands between two of its statements
C20_Witness ==
    /\ call[1] = call[2]
    /\ call[1].op = "score_community"
    /\ ret[1].pc = "scored"
    /\ ret[2].pc = "done"
    /\ ret[2].out.status = "ok"

\* C21: with non-negative weights whose sum is at most 1, the default ones in
\* particular, the score score_community returns lies in [0,100].
C21_ScoreWithin100ForSumAtMostOne ==
    (/\ call.op = "score_community"
     /\ Returned
     /\ \A k \in 1..Len(Dimensions) : RLe(RInt(0), C17_Weight(call.weights, Dimensions[k]))
     /\ RLe(WeightSum(call.weights), RInt(1))) =>
        /\ RLe(RInt(0), ret.value.score)
        /\ RLe(ret.value.score, RInt(100))

\* weights other than the default ones that sum to exactly 1, on a community
\* whose weighted dimensions both score 10: the score is the full 100
C21_Witness ==
    /\ call.op = "score_community"
    /\ Returned
    /\ call.weights # DefaultWeights
    /\ WeightSum(call.weights) = RInt(1)
    /\ ret.value.score = RInt(100)

\* The community a detail request is about, when the table holds it.
DetailFound == call.op = "get_community_detail" /\ call.community_id \in 1..Len(database.communities)

DetailCommunity == database.communities[call.community_id]

\* C22 as stated: the detail path scores with price_min = 0.7 * avg_price and
\* price_max = 1.3 * avg_price when avg_price > 0, and with price_min = 0 and
\* price_max = 100000 when avg_price is absent or not positive; the search
\* path scores with the price_min and price_max of the request.
C22_DetailBandExact ==
    /\ (DetailFound /\ Done) =>
          LET a == DetailCommunity.avg_price
          IN  IF a # None /\ a[1] > 0
              THEN /\ 10 * detail_price_min(DetailCommunity) = 7 * a[1]
                   /\ 10 * detail_price_max(DetailCommunity) = 13 * a[1]
              ELSE /\ detail_price_min(DetailCommunity) = 0
                   /\ detail_price_max(DetailCommunity) = 100000
    /\ (call.op = "search_and_rank" /\ Returned) =>
          \A j \in 1..Len(ret.value) :
              SubGet(ret.value[j].sub_scores, "price", RInt(0))
                  = calc_price_score(ret.value[j].avg_price, call.price_min, call.price_max)

\* The values C22 as amended allows for price_min: 0.7 * avg_price truncated
\* towards zero, or one nearer to zero for a multiple of 10 of magnitude >= 90.
C22_Mins(a) ==
    LET m == IF a = None THEN 0 ELSE IF a[1] >= 0 THEN a[1] ELSE -(a[1])
        sign == IF a # None /\ a[1] < 0 THEN -1 ELSE 1
        t == (7 * m) \div 10
    IN  {sign * t} \cup (IF m % 10 = 0 /\ m >= 90 THEN {sign * (t - 1)} ELSE {})

C22_Max(a) == IF a # None /\ a[1] > 0 THEN (13 * a[1]) \div 10 ELSE 100000

\* C22 as amended: the detail path scores with the integers price_min =
\* int(avg_price * 0.7) and price_max = int(avg_price * 1.3) when avg_price >
\* 0, with price_min = 0 and price_max = 100000 when avg_price is absent or 0,
\* and with price_min = int(avg_price * 0.7) and price_max = 100000 when
\* avg_price is negative; the price sub-score of the response is the one of
\* that band; the search path scores with the band of the request.
C22_DetailBandTruncated ==
    /\ (DetailFound /\ Done) =>
          LET c == DetailCommunity
          IN  /\ detail_price_min(c) \in C22_Mins(c.avg_price)
              /\ detail_price_max(c) = C22_Max(c.avg_price)
              /\ (c.avg_price = None \/ c.avg_price = Some(0)) => detail_price_min(c) = 0
              /\ Returned =>
                    \E price_min \in C22_Mins(c.avg_price) :
                        SubGet(ret.value.sub_scores, "price", RInt(0))
                            = calc_price_score(c.avg_price, price_min, C22_Max(c.avg_price))
    /\ (call.op = "search_and_rank" /\ Returned) =>
          \A j \in 1..Len(ret.value) :
              SubGet(ret.value[j].sub_scores, "price", RInt(0))
                  = calc_price_score(ret.value[j].avg_price, call.price_min, call.price_max)

\* a detail response for a price of 90, scored in the band [62, 117]
C22_Witness ==
    /\ DetailFound
    /\ Returned
    /\ DetailCommunity.avg_price = Some(90)
    /\ detail_price_min(DetailCommunity) = 62
    /\ SubGet(ret.value.sub_scores, "price", RInt(0)) = calc_price_score(Some(90), 62, 117)

\* the POI lists all of whose distances are present
C23_AllPresent(pois) == \A k \in 1..Len(pois) : pois[k].distance # None

\* the categories of a list and the best distance score of each, read off the
\* list as a whole
C23_Best(pois) ==
    { <<pois[k].category, distance_to_score(pois[k].distance[1])>> : k \in
        { k \in 1..Len(pois) :
            \A j \in 1..Len(pois) :
                pois[j].category = pois[k].category =>
                    RLe(distance_to_score(pois[j].distance[1]),
                        distance_to_score(pois[k].distance[1])) } }

C23_Perms(pois) ==
    { [i \in 1..Len(pois) |-> pois[f[i]]] :
        f \in { g \in [1..Len(pois) -> 1..Len(pois)] :
                    \A i, j \in 1..Len(pois) : g[i] = g[j] => i = j } }

\* the POIs that are no closer than the best one of a category of the list
C23_NoCloser(pois) ==
    { p \in SomePois :
        /\ p.distance # None
        /\ \E kv \in C23_Best(pois) :
              kv[1] = p.category /\ RLe(distance_to_score(p.distance[1]), kv[2]) }

\* C23: calc_facilities_score depends only on the categories of the list and
\* the best distance score of each: a list with present distances scores as
\* every other such list with the same categories and best scores, as each of
\* its reorderings, and as the list with one more POI, at either end, that is
\* no closer than the best one of a category it already holds.
C23_OnlyBestPerCategory ==
    (call.op = "calc_facilities_score" /\ Returned /\ C23_AllPresent(call.pois)) =>
        /\ \A other \in SeqUpTo({p \in SomePois : p.distance # None}, 2) :
              C23_Best(other) = C23_Best(call.pois) =>
                  calc_facilities_score(other) = ret.value
        /\ \A other \in C23_Perms(call.pois) : calc_facilities_score(other) = ret.value
        /\ \A p \in C23_NoCloser(call.pois) :
              /\ calc_facilities_score(Append(call.pois, p)) = ret.value
              /\ calc_facilities_score(<<p>> \o call.pois) = ret.value

\* a list whose second POI betters the first of its category scores as the
\* two best POIs alone, in the other order: (10 * 3 + 4 * 2) / 5
C23_Witness ==
    /\ call.op = "calc_facilities_score"
    /\ Returned
    /\ call.pois = <<Poi("ditie", Some(1500)), Poi("ditie", Some(300)), Poi("yiyuan", Some(1500))>>
    /\ ret.value = R(38, 5)
    /\ ret.value = calc_facilities_score(<<Poi("yiyuan", Some(1500)), Poi("ditie", Some(300))>>)

C30_HasDistance(poi) == poi.distance # None

\* C30: calc_facilities_score ignores the POIs whose distance is absent: the
\* result is the one of the list without them, a category all of whose POIs
\* lack the distance weighs as a category the list does not hold (the list
\* without them has none of its POIs), and the result is 0.0 when every POI
\* lacks the distance.
C30_AbsentDistanceIgnored ==
    (call.op = "calc_facilities_score" /\ Returned) =>
        LET present == SelectSeq(call.pois, C30_HasDistance)
        IN  /\ ret.value = calc_facilities_score(present)
            /\ \A k \in 1..Len(call.pois) :
                  (\A j \in 1..Len(call.pois) :
                      call.pois[j].category = call.pois[k].category =>
                          call.pois[j].distance = None) =>
                      /\ \A j \in 1..Len(present) :
                            present[j].category # call.pois[k].category
                      /\ \A kv \in category_best_scores(call.pois, Len(call.pois)) :
                            kv[1] # call.pois[k].category
            /\ Len(present) = 0 => ret.value = RInt(0)

\* a transit POI without a distance next to a near hospital and a far park:
\* (10 * 2 + 4 * 3/2) / (7/2), the transit weight of 3 left out
C30_Witness ==
    /\ call.op = "calc_facilities_score"
    /\ Returned
    /\ call.pois = <<Poi("ditie", None), Poi("yiyuan", Some(300)), Poi("gongyuan", Some(1500))>>
    /\ ret.value = R(52, 7)

\* C24: no step of an invocation changes what it was handed or what the
\* invocations share: the arguments of every invocation (community
\* attributes, POI list and entries, weights, band) and the tables stay as
\* they are, the sub_scores mapping stays as built once analyze has been
\* handed it, and a result that has been returned is not altered by the steps
\* of the other invocations.
C24_NothingMutated ==
    [][/\ call' = call
       /\ database' = database
       /\ \A i \in 1..MaxInvocations :
             /\ ret[i].pc \in {"scored", "totalled", "analysed"} =>
                   ret'[i].sub_scores = ret[i].sub_scores
             /\ ret[i].pc = "done" => ret'[i] = ret[i]]_vars

\* the first invocation has returned its result and the second, handed a
\* POI list with an entry, has run analyze after that
C24_Witness ==
    /\ call[1].op = "score_community"
    /\ ret[1].pc = "done"
    /\ ret[1].out.status = "ok"
    /\ call[2].op = "score_community"
    /\ Len(call[2].pois) > 0
    /\ ret[2].pc = "analysed"

\* C25: every result a search_and_rank call with price_min >= 0 returns has a
\* price sub-score in [6.0, 10.0], and the price con line is in the cons of
\* none of them.
C25_SearchPriceScoreAtLeastSix ==
    (call.op = "search_and_rank" /\ Returned /\ call.price_min >= 0) =>
        \A j \in 1..Len(ret.value) :
            LET price == SubGet(ret.value[j].sub_scores, "price", RInt(0))
            IN  /\ RLe(RInt(6), price)
                /\ RLe(price, RInt(10))
                /\ ~HasLine(ret.value[j].cons, CON_TEMPLATES, "price")

\* two results, one priced at the upper end of the band (6.0) and one at the
\* lower end (10.0)
C25_Witness ==
    /\ call.op = "search_and_rank"
    /\ Returned
    /\ call.price_min = 6
    /\ \E i, j \in 1..Len(ret.value) :
          /\ ret.value[i].avg_price = Some(call.price_max)
          /\ SubGet(ret.value[i].sub_scores, "price", RInt(0)) = RInt(6)
          /\ ret.value[j].avg_price = Some(call.price_min)
          /\ SubGet(ret.value[j].sub_scores, "price", RInt(0)) = RInt(10)

\* C26: in score_community with 0 <= price_min <= price_max and a present
\* avg_price, the high-value tag is in tags, and the price pro line in pros,
\* exactly when 2 * avg_price <= price_min + price_max.
C26_HighValueIffAtOrBelowMidpoint ==
    (/\ call.op = "score_community"
     /\ Returned
     /\ 0 <= call.price_min
     /\ call.price_min <= call.price_max
     /\ call.community.avg_price # None) =>
        LET tag == HasTag(ret.value.tags, "gao_xingjiabi")
            pro == HasLine(ret.value.pros, PRO_TEMPLATES, "price")
        IN  /\ tag <=> (2 * call.community.avg_price[1] <= call.price_min + call.price_max)
            /\ tag <=> pro

\* the price at the midpoint of the band: a price sub-score of exactly 8
C26_Witness ==
    /\ call.op = "score_community"
    /\ Returned
    /\ call.price_min = 6
    /\ call.price_max = 10
    /\ call.community.avg_price = Some(8)
    /\ HasTag(ret.value.tags, "gao_xingjiabi")
    /\ HasLine(ret.value.pros, PRO_TEMPLATES, "price")
    /\ SubGet(ret.value.sub_scores, "price", RInt(0)) = RInt(8)

\* the rendered lines of a result, pros before cons
C27_Lines == ret.value.pros \o ret.value.cons

\* C27: in every result of score_community a line whose template holds a
\* placeholder is there only when the attribute it substitutes is present:
\* the price pro and con lines only with avg_price, the property_mgmt pro
\* line only with property_company, the developer pro line only with
\* developer; no line renders an absent attribute, as "weizhi" or as "None".
C27_PlaceholderLinesNeedAttribute ==
    (call.op = "score_community" /\ Returned) =>
        /\ (\/ HasLine(ret.value.pros, PRO_TEMPLATES, "price")
            \/ HasLine(ret.value.cons, CON_TEMPLATES, "price")) =>
               call.community.avg_price # None
        /\ HasLine(ret.value.pros, PRO_TEMPLATES, "property_mgmt") =>
               call.community.property_company # None
        /\ HasLine(ret.value.pros, PRO_TEMPLATES, "developer") =>
               call.community.developer # None
        /\ \A i \in 1..Len(C27_Lines) :
               Len(C27_Lines[i]) = 2 => C27_Lines[i][2] \notin {"weizhi", "None"}

\* a community without price and property company and with a top10
\* developer: the developer pro line names it, no price or property line
C27_Witness ==
    /\ call.op = "score_community"
    /\ Returned
    /\ call.community.avg_price = None
    /\ call.community.property_company = None
    /\ call.community.developer = Some("wanke")
    /\ \E i \in 1..Len(ret.value.pros) :
          ret.value.pros[i] = <<"pro_developer", "wanke">>
    /\ ~HasLine(ret.value.pros, PRO_TEMPLATES, "property_mgmt")
    /\ ~HasLine(ret.value.pros, PRO_TEMPLATES, "price")
    /\ ~HasLine(ret.value.cons, CON_TEMPLATES, "price")

\* the result of the same call under other weights
C28_Under(weights) ==
    score_community(call.community, call.school_rank, call.pois,
                    call.price_min, call.price_max, weights)

\* the outcome is a result that differs from the returned one in the score
\* field at most
C28_SameButScore(other) ==
    other = [status |-> "ok", value |-> [ret.value EXCEPT !.score = other.value.score]]

\* C28: for a fixed community, school rank, POI list and band, the weights
\* reach the score field only: under any other weights score_community
\* returns the same sub_scores, pros, cons and tags.
C28_WeightsReachScoreOnly ==
    (call.op = "score_community" /\ Returned) =>
        \A weights \in WeightSamples \ {call.weights} :
            C28_SameButScore(C28_Under(weights))

\* a call under weights other than the defaults whose score differs from the
\* one under the defaults, with lines and a tag returned
C28_Witness ==
    /\ call.op = "score_community"
    /\ Returned
    /\ call.weights # DefaultWeights
    /\ C28_Under(DefaultWeights).value.score # ret.value.score
    /\ Len(ret.value.pros) > 0
    /\ Len(ret.value.cons) > 0
    /\ Len(ret.value.tags) > 0

\* C29: on the detail path, for a community with avg_price > 0 (scored in the
\* band from int(0.7 * avg_price) to int(1.3 * avg_price)), the price
\* sub-score lies in [6.0, 8.0] and is 8.0 only when avg_price is a multiple
\* of 10; the price con line is not in the response, the price pro line only
\* for such a price.
C29_DetailPriceScoreSixToEight ==
    (/\ DetailFound
     /\ Returned
     /\ DetailCommunity.avg_price # None
     /\ DetailCommunity.avg_price[1] > 0) =>
        LET price == SubGet(ret.value.sub_scores, "price", RInt(0))
        IN  /\ RLe(RInt(6), price)
            /\ RLe(price, RInt(8))
            /\ price = RInt(8) => DetailCommunity.avg_price[1] % 10 = 0
            /\ ~HasLine(ret.value.cons, CON_TEMPLATES, "price")
            /\ HasLine(ret.value.pros, PRO_TEMPLATES, "price") =>
                   DetailCommunity.avg_price[1] % 10 = 0

\* the price 10, scored 8.0 in the band [7, 13], with the price pro line
C29_Witness ==
    /\ DetailFound
    /\ Returned
    /\ DetailCommunity.avg_price = Some(10)
    /\ SubGet(ret.value.sub_scores, "price", RInt(0)) = RInt(8)
    /\ HasLine(ret.value.pros, PRO_TEMPLATES, "price")

====
